---- MODULE Spec2Model ----
(***************************************************************************)
(* Wallet system: the tRPC router (src/lib/trpc.ts) over the SQLite schema *)
(* (src/lib/database.ts).  Three mutations (createAccount, topUp, charge)  *)
(* run as concurrent async handlers; every `await` on the store is one     *)
(* step, so handlers interleave between their storage steps.  The three    *)
(* queries (getUser, getUserByEmail, getUserTransactions) and the store's  *)
(* clock, which stamps created_at in whole seconds, are part of            *)
(* SpecSequential.  accesses counts the statements a request has sent.     *)
(* SpecLedger is one client on two new accounts sending the requests of    *)
(* the documented examples; SpecRest is the two REST wrappers              *)
(* (/api/account/create, /api/account/topup) over the router.              *)
(* SpecFair is topUp and charge meeting on one key, with weak fairness on  *)
(* each request's continuation.                                            *)
(*                                                                         *)
(* Money is held in thousandths of a currency unit (mills), so that an     *)
(* input with three decimals exists and formatCurrency has something to    *)
(* round: 0.01 is 10, 999999.99 is 999999990.                              *)
(* Strings are sequences of one-character strings, so that trim and        *)
(* toLowerCase are computed and not assumed.                               *)
(***************************************************************************)
EXTENDS Integers, Sequences, FiniteSets, TLC

VARIABLES users, transactions, pc, call, local, result, quiet, accesses, now

vars == <<users, transactions, pc, call, local, result, quiet, accesses, now>>

(* ------------------------------------------------------------------ *)
(* Bounds of the model                                                *)
(* ------------------------------------------------------------------ *)

\* number of requests (handler invocations) in one behaviour
NumReq == 2

Procs == 1..NumReq

(* ------------------------------------------------------------------ *)
(* Program constants (database.ts)                                    *)
(* ------------------------------------------------------------------ *)

\* const CURRENCY_PRECISION = 100 (minor units per currency unit)
CURRENCY_PRECISION == 100

\* mills per currency unit: the resolution of the model's numbers
Unit == 10 * CURRENCY_PRECISION

\* const MIN_AMOUNT = 0.01, in mills
MIN_AMOUNT == 10

\* const MAX_AMOUNT = 999999.99, in mills
MAX_AMOUNT == 999999990

\* zod: .max(255) on userId, idempotencyKey and email
MaxStrLen == 255

\* zod: .max(100) on name
MaxNameLen == 100

\* zod: .min(3) on email
MinEmailLen == 3

(* ------------------------------------------------------------------ *)
(* Strings                                                            *)
(* ------------------------------------------------------------------ *)

IsSpace(c) == c = " "

RECURSIVE TrimStart(_)
TrimStart(s) ==
  IF s = <<>> THEN <<>>
  ELSE IF IsSpace(Head(s)) THEN TrimStart(Tail(s)) ELSE s

RECURSIVE TrimEnd(_)
TrimEnd(s) ==
  IF s = <<>> THEN <<>>
  ELSE IF IsSpace(s[Len(s)]) THEN TrimEnd(SubSeq(s, 1, Len(s) - 1)) ELSE s

\* String.prototype.trim
Trim(s) == TrimEnd(TrimStart(s))

LowerChar(c) ==
  CASE c = "A" -> "a"
    [] c = "B" -> "b"
    [] c = "C" -> "c"
    [] OTHER -> c

\* String.prototype.toLowerCase
ToLowerCase(s) == [n \in 1..Len(s) |-> LowerChar(s[n])]

\* a string of n copies of c
Repeat(c, n) == [k \in 1..n |-> c]

(* ------------------------------------------------------------------ *)
(* Currency utilities (database.ts)                                   *)
(* ------------------------------------------------------------------ *)

\* Math.round(x / d) for d > 0: the nearest integer, halves towards +infinity
RoundDiv(x, d) == (2 * x + d) \div (2 * d)

\* Math.round(amount * CURRENCY_PRECISION) / CURRENCY_PRECISION; amount is in
\* mills, so amount * CURRENCY_PRECISION counted in cents is amount divided
\* by the mills of one cent (the quotient is taken first: 32-bit integers)
formatCurrency(amount) ==
  RoundDiv(amount, Unit \div CURRENCY_PRECISION) * (Unit \div CURRENCY_PRECISION)

\* number of digits after the decimal point in amount.toString()
DecimalPlaces(amount) ==
  LET frac == amount % Unit
  IN  IF frac = 0 THEN 0
      ELSE IF frac % 100 = 0 THEN 1
      ELSE IF frac % 10 = 0 THEN 2
      ELSE 3

\* validateAmount with the upper end of the range left out
validateAmount_exclusive(amount) ==
  IF amount <= 0 THEN FALSE
  ELSE IF amount < MIN_AMOUNT \/ amount >= MAX_AMOUNT THEN FALSE
  ELSE IF DecimalPlaces(amount) > 2 THEN FALSE
  ELSE TRUE

\* validateAmount: positive, within [MIN_AMOUNT, MAX_AMOUNT], at most 2 decimals
validateAmount(amount) ==
  IF amount <= 0 THEN FALSE
  ELSE IF amount < MIN_AMOUNT \/ amount > MAX_AMOUNT THEN FALSE
  ELSE IF DecimalPlaces(amount) > 2 THEN FALSE
  ELSE TRUE

\* generateId(): a fresh identifier; every handler invocation calls it exactly
\* once, so the id generated by invocation i is named after i
generateId(i) == <<ToString(i)>>

(* ------------------------------------------------------------------ *)
(* zod input schemas (trpc.ts)                                        *)
(* ------------------------------------------------------------------ *)

\* z.string().min(1).max(255).trim().refine(val => val.length > 0):
\* the length checks see the raw string, the refinement the trimmed one
ZodIdOk(s) == Len(s) >= 1 /\ Len(s) <= MaxStrLen /\ Len(Trim(s)) > 0

\* z.number().min(MIN_AMOUNT).max(MAX_AMOUNT).finite().refine(> 0)
\*  .refine(val => Math.round(val * 100) / 100 === val)
ZodAmountOk(a) ==
  a >= MIN_AMOUNT /\ a <= MAX_AMOUNT /\ a > 0 /\ formatCurrency(a) = a

\* z.string().email(): one "@" with text on both sides, and no blank
IsEmail(s) ==
  /\ \A n \in 1..Len(s) : ~IsSpace(s[n])
  /\ Cardinality({n \in 1..Len(s) : s[n] = "@"}) = 1
  /\ Len(s) >= 1 /\ s[1] # "@" /\ s[Len(s)] # "@"

\* z.string().email().min(3).max(255).trim().toLowerCase()
ZodEmailOk(s) == IsEmail(s) /\ Len(s) >= MinEmailLen /\ Len(s) <= MaxStrLen

\* z.string().min(1).max(100).trim().refine(val => val.length > 0)
ZodNameOk(s) == Len(s) >= 1 /\ Len(s) <= MaxNameLen /\ Len(Trim(s)) > 0

(* ------------------------------------------------------------------ *)
(* Rows, and the values a handler holds between its steps             *)
(* ------------------------------------------------------------------ *)

NoRow ==
  [id |-> <<>>, user_id |-> <<>>, type |-> "", amount |-> 0,
   balance_after |-> 0, idempotency_key |-> <<>>, created_at |-> 0]

NoAccount == [id |-> <<>>, email |-> <<>>, name |-> <<>>, balance |-> 0]

NoCall ==
  [op |-> "none", userId |-> <<>>, amount |-> 0, idempotencyKey |-> <<>>,
   email |-> <<>>, name |-> <<>>]

NoLocal == [existingTransaction |-> NoRow, newBalance |-> 0, error |-> ""]

NoResult ==
  [status |-> "none", code |-> "", message |-> "", transactionId |-> <<>>,
   newBalance |-> 0, amount |-> 0, duplicate |-> FALSE, account |-> NoAccount,
   history |-> <<>>, http |-> 0]

\* throw new TRPCError({code, message}); any other exception that leaves a
\* handler reaches the caller as INTERNAL_SERVER_ERROR
Thrown(code, message) ==
  [NoResult EXCEPT !.status = "error", !.code = code, !.message = message]

\* the TransactionResponse of topUp and charge
TransactionResponse(transactionId, newBalance, amount, duplicate) ==
  [NoResult EXCEPT !.status = "success", !.transactionId = transactionId,
                   !.newBalance = newBalance, !.amount = amount,
                   !.duplicate = duplicate]

\* the TransactionHistoryItem of getUserTransactions
TransactionHistoryItem(row) ==
  [id |-> row.id, type |-> row.type, amount |-> formatCurrency(row.amount),
   balanceAfter |-> formatCurrency(row.balance_after),
   createdAt |-> row.created_at, idempotencyKey |-> row.idempotency_key]

\* the answer of getUserTransactions
TransactionHistory(rows) ==
  [NoResult EXCEPT !.status = "success",
     !.history = [k \in 1..Len(rows) |-> TransactionHistoryItem(rows[k])]]

\* the UserResponse of createAccount, getUser and getUserByEmail
UserResponse(id, row) ==
  [NoResult EXCEPT !.status = "success",
     !.account = [id |-> id, email |-> row.email, name |-> row.name,
                  balance |-> formatCurrency(row.balance)]]

(* ------------------------------------------------------------------ *)
(* The store: tables, constraints and prepared statements             *)
(* ------------------------------------------------------------------ *)

\* SELECT * FROM users WHERE id = ?   (rows.length > 0)
UserExists(u, id) == id \in DOMAIN u

\* SELECT * FROM users WHERE email = ?
getUserByEmail(u, email) == {id \in DOMAIN u : u[id].email = email}

\* the lookup that compares the key with the id column
getTransactionByIdempotencyKey_byId(t, key) ==
  {n \in 1..Len(t) : t[n].id = key}

\* SELECT * FROM transactions WHERE idempotency_key = ?
getTransactionByIdempotencyKey(t, key) ==
  {n \in 1..Len(t) : t[n].idempotency_key = key}

\* the ways to list the members of S one after the other
Orderings(S) ==
  {s \in [1..Cardinality(S) -> S] : \A a, b \in 1..Cardinality(S) : a # b => s[a] # s[b]}

\* the listings of the given rows that ORDER BY created_at DESC allows: the
\* order of rows stamped with the same second is not defined by the query
OrderByCreatedAtDesc(t, S) ==
  {[k \in 1..Cardinality(S) |-> t[s[k]]] :
     s \in {o \in Orderings(S) :
              \A a, b \in 1..Cardinality(S) :
                a < b => t[o[a]].created_at >= t[o[b]].created_at}}

\* the query without its WHERE clause: the rows of every account
getUserTransactions_allRows(t, userId) ==
  OrderByCreatedAtDesc(t, 1..Len(t))

\* SELECT * FROM transactions WHERE user_id = ? ORDER BY created_at DESC:
\* the results the store may return
getUserTransactions(t, userId) ==
  OrderByCreatedAtDesc(t, {n \in 1..Len(t) : t[n].user_id = userId})

\* the first row of the table in place of the first row of the result
FirstRow_ofTable(t, hits) == t[1]

\* rows[0] of a non-empty result
FirstRow(t, hits) == t[CHOOSE n \in hits : \A m \in hits : n <= m]

\* the INSERT against a users table whose email column is not UNIQUE
createUserError_noUnique(u, id, email) ==
  IF id \in DOMAIN u THEN "UNIQUE constraint failed: users.id" ELSE ""

\* INSERT INTO users (id, email, name, balance) VALUES (?, ?, ?, 0.00)
\* under id PRIMARY KEY and email UNIQUE: "" or the constraint that fails
createUserError(u, id, email) ==
  IF id \in DOMAIN u THEN "UNIQUE constraint failed: users.id"
  ELSE IF getUserByEmail(u, email) # {} THEN "UNIQUE constraint failed: users.email"
  ELSE ""

createUser(u, id, email, name) ==
  [x \in DOMAIN u \cup {id} |->
     IF x = id THEN [email |-> email, name |-> name, balance |-> 0] ELSE u[x]]

\* the INSERT against a table whose idempotency_key column is not UNIQUE
createTransactionError_noUnique(t, row) ==
  IF \E n \in 1..Len(t) : t[n].id = row.id
    THEN "UNIQUE constraint failed: transactions.id"
  ELSE IF row.type \notin {"topup", "charge"} \/ row.amount <= 0
          \/ row.balance_after < 0
    THEN "CHECK constraint failed"
  ELSE ""

(* INSERT INTO transactions (...) VALUES (?, ?, ?, ?, ?, ?) under id PRIMARY KEY,
   the CHECKs on type, amount and balance_after, and idempotency_key UNIQUE:
   "" or the constraint that fails *)
createTransactionError(t, row) ==
  IF \E n \in 1..Len(t) : t[n].id = row.id
    THEN "UNIQUE constraint failed: transactions.id"
  ELSE IF row.type \notin {"topup", "charge"} \/ row.amount <= 0
          \/ row.balance_after < 0
    THEN "CHECK constraint failed"
  ELSE IF getTransactionByIdempotencyKey(t, row.idempotency_key) # {}
    THEN "UNIQUE constraint failed: transactions.idempotency_key"
  ELSE ""

\* UPDATE users SET balance = ? WHERE id = ?  written relative to the stored
\* balance and run against a table that lacks CHECK (balance >= 0)
updateBalance_relative(u, newBalance, userId) ==
  IF userId \notin DOMAIN u THEN [error |-> "", users |-> u]
  ELSE [error |-> "",
        users |-> [u EXCEPT ![userId].balance = u[userId].balance - newBalance]]

\* UPDATE users SET balance = ?  without its WHERE clause
updateBalance_noWhere(u, newBalance, userId) ==
  IF newBalance < 0 THEN [error |-> "CHECK constraint failed", users |-> u]
  ELSE [error |-> "", users |-> [x \in DOMAIN u |-> [u[x] EXCEPT !.balance = newBalance]]]

\* UPDATE users SET balance = ? WHERE id = ?  under CHECK (balance >= 0):
\* the error ("" when none) and the table after the statement
updateBalance(u, newBalance, userId) ==
  IF userId \notin DOMAIN u THEN [error |-> "", users |-> u]
  ELSE IF newBalance < 0 THEN [error |-> "CHECK constraint failed", users |-> u]
  ELSE [error |-> "", users |-> [u EXCEPT ![userId].balance = newBalance]]

\* the batch whose failing INSERT leaves the UPDATE in place (no rollback)
batch_partial(u, t, newBalance, userId, row) ==
  LET upd == updateBalance(u, newBalance, userId)
      insErr == createTransactionError(t, row)
  IN  IF upd.error # "" THEN [error |-> upd.error, users |-> u, transactions |-> t]
      ELSE IF insErr # ""
        THEN [error |-> insErr, users |-> upd.users, transactions |-> t]
      ELSE [error |-> "", users |-> upd.users, transactions |-> Append(t, row)]

\* the batch whose INSERT is INSERT OR REPLACE: the row that holds the key is
\* deleted and the new row is stored in its place
batch_replace(u, t, newBalance, userId, row) ==
  LET upd == updateBalance(u, newBalance, userId)
      kept == SelectSeq(t, LAMBDA r : r.idempotency_key # row.idempotency_key)
  IN  IF upd.error # "" THEN [error |-> upd.error, users |-> u, transactions |-> t]
      ELSE [error |-> "", users |-> upd.users, transactions |-> Append(kept, row)]

\* db.batch([BEGIN, UPDATE users ..., INSERT INTO transactions ..., COMMIT]):
\* one atomic unit; a failing statement rolls the whole unit back
batch(u, t, newBalance, userId, row) ==
  LET upd == updateBalance(u, newBalance, userId)
      insErr == createTransactionError(t, row)
  IN  IF upd.error # "" THEN [error |-> upd.error, users |-> u, transactions |-> t]
      ELSE IF insErr # "" THEN [error |-> insErr, users |-> u, transactions |-> t]
      ELSE [error |-> "", users |-> upd.users, transactions |-> Append(t, row)]

\* error.message.includes('UNIQUE constraint failed')
IsUniqueConstraintError(e) ==
  e \in {"UNIQUE constraint failed: users.id",
         "UNIQUE constraint failed: users.email",
         "UNIQUE constraint failed: transactions.id",
         "UNIQUE constraint failed: transactions.idempotency_key"}

(* ------------------------------------------------------------------ *)
(* Inputs                                                             *)
(* ------------------------------------------------------------------ *)

\* the database file outlives the process: at start the tables are empty, or
\* hold what earlier runs left, here one account funded by one top-up
SeedUserId == <<"u">>
SeedEmail == <<"a", "@", "b">>
SeedKey == <<"s">>
SeedBalance == 2 * MIN_AMOUNT

SeedUsers ==
  [x \in {SeedUserId} |-> [email |-> SeedEmail, name |-> <<"n">>, balance |-> SeedBalance]]

SeedTransactions ==
  << [id |-> <<"t">>, user_id |-> SeedUserId, type |-> "topup",
      amount |-> SeedBalance, balance_after |-> SeedBalance,
      idempotency_key |-> SeedKey, created_at |-> 0] >>

\* an id no account ever has
GhostId == <<"g">>

\* e-mail addresses: two spellings of one address, one padded with a blank
\* (no e-mail to zod), another address, and a string that is no address
EmailInputs ==
  {<<"a", "@", "b">>, <<"A", "@", "b">>, <<"c", "@", "b">>, <<"a">>, <<" ", "a", "@", "b">>}

NameInputs == {<<"n">>, <<" ">>, <<>>, Repeat("n", MaxNameLen + 1)}

\* createAccount inputs: every address with a good name, every name with a
\* good address
CreateAccountInputs ==
  (EmailInputs \X {<<"n">>}) \cup ({<<"c", "@", "b">>} \X NameInputs)

\* ids that pass the schema: the accounts that exist, one of them padded with
\* blanks, and the id of no account
GoodUserIdInputs ==
  DOMAIN users \cup {<<" ">> \o id : id \in DOMAIN users} \cup {GhostId}

BadUserIdInputs == {<<>>, <<" ">>, Repeat("g", MaxStrLen + 1)}

\* 0.01 and 0.02
GoodAmountInputs == {MIN_AMOUNT, 2 * MIN_AMOUNT}

\* zero, negative, below the minimum, three decimals, above the maximum
BadAmountInputs ==
  {0, 0 - MIN_AMOUNT, MIN_AMOUNT \div 2, MIN_AMOUNT + MIN_AMOUNT \div 2,
   MAX_AMOUNT + MIN_AMOUNT}

GoodKeyInputs == {<<"k">>, <<" ", "k", " ">>, <<"j">>}

BadKeyInputs == {<<>>, <<" ">>, Repeat("k", MaxStrLen + 1)}

\* topUp and charge inputs: every combination of good fields, and every bad
\* field beside good ones
MutationInputs ==
  (GoodUserIdInputs \X GoodAmountInputs \X GoodKeyInputs)
    \cup (BadUserIdInputs \X {MIN_AMOUNT} \X {<<"k">>})
    \cup ({GhostId} \X BadAmountInputs \X {<<"k">>})
    \cup ({GhostId} \X {MIN_AMOUNT} \X BadKeyInputs)

(* ------------------------------------------------------------------ *)
(* Initial state                                                      *)
(* ------------------------------------------------------------------ *)

Init ==
  /\ \/ users = [x \in {} |-> NoAccount] /\ transactions = <<>>
     \/ users = SeedUsers /\ transactions = SeedTransactions
  /\ pc = [i \in Procs |-> "idle"]
  /\ call = [i \in Procs |-> NoCall]
  /\ local = [i \in Procs |-> NoLocal]
  /\ result = [i \in Procs |-> NoResult]
  /\ quiet = [i \in Procs |-> FALSE]
  /\ accesses = [i \in Procs |-> 0]
  /\ now = 0

\* requests are numbered in the order they arrive
MayStart(i) == pc[i] = "idle" /\ \A j \in DOMAIN pc : j < i => pc[j] # "idle"

\* a handler returns or throws r
Finish(i, r) ==
  /\ pc' = [pc EXCEPT ![i] = "done"]
  /\ result' = [result EXCEPT ![i] = r]

\* request i sends one statement (or one batch) to the store
Access(i) == accesses' = [accesses EXCEPT ![i] = @ + 1]

\* no request is in flight: every request that arrived has been answered
NoneInFlight == \A j \in DOMAIN pc : pc[j] \in {"idle", "done"}

\* a handler is entered with its parsed input; quiet records whether the
\* caller had the answers of all earlier requests when it sent this one
Enter(i, c, next) ==
  /\ pc' = [pc EXCEPT ![i] = next]
  /\ call' = [call EXCEPT ![i] = c]
  /\ quiet' = [quiet EXCEPT ![i] = NoneInFlight]
  /\ UNCHANGED <<users, transactions, local, result, accesses, now>>

\* the input checked only after the probe for its key has been sent
Reject_afterProbe(i, op, r) ==
  /\ pc' = [pc EXCEPT ![i] = "done"]
  /\ call' = [call EXCEPT ![i] = [NoCall EXCEPT !.op = op]]
  /\ result' = [result EXCEPT ![i] = r]
  /\ quiet' = [quiet EXCEPT ![i] = NoneInFlight]
  /\ Access(i)
  /\ UNCHANGED <<users, transactions, local, now>>

\* the input fails its schema or validateAmount: the handler throws before
\* its first statement
Reject(i, op, r) ==
  /\ pc' = [pc EXCEPT ![i] = "done"]
  /\ call' = [call EXCEPT ![i] = [NoCall EXCEPT !.op = op]]
  /\ result' = [result EXCEPT ![i] = r]
  /\ quiet' = [quiet EXCEPT ![i] = NoneInFlight]
  /\ UNCHANGED <<users, transactions, local, accesses, now>>

(* ------------------------------------------------------------------ *)
(* createAccount                                                      *)
(* ------------------------------------------------------------------ *)

\* the input schema of createAccount without .toLowerCase()
CreateAccount_keepCase(i, email, name) ==
  IF ZodEmailOk(email) /\ ZodNameOk(name)
    THEN Enter(i, [NoCall EXCEPT !.op = "createAccount",
                                 !.userId = generateId(i),
                                 !.email = Trim(email),
                                 !.name = Trim(name)],
               "createAccount_getUserByEmail")
    ELSE Reject(i, "createAccount", Thrown("BAD_REQUEST", "Invalid input"))

\* the input schema of createAccount, then generateId()
CreateAccount(i, email, name) ==
  IF ZodEmailOk(email) /\ ZodNameOk(name)
    THEN Enter(i, [NoCall EXCEPT !.op = "createAccount",
                                 !.userId = generateId(i),
                                 !.email = ToLowerCase(Trim(email)),
                                 !.name = Trim(name)],
               "createAccount_getUserByEmail")
    ELSE Reject(i, "createAccount", Thrown("BAD_REQUEST", "Invalid input"))

\* a caller invokes createAccount
CreateAccountCall(i) ==
  /\ MayStart(i)
  /\ \E in \in CreateAccountInputs : CreateAccount(i, in[1], in[2])

\* await statements.getUserByEmail(input.email): CONFLICT when a row exists
CreateAccountGetUserByEmail(i) ==
  /\ pc[i] = "createAccount_getUserByEmail"
  /\ Access(i)
  /\ IF getUserByEmail(users, call[i].email) # {}
       THEN Finish(i, Thrown("CONFLICT", "User with this email already exists"))
       ELSE /\ pc' = [pc EXCEPT ![i] = "createAccount_createUser"]
            /\ UNCHANGED result
  /\ UNCHANGED <<users, transactions, call, local, quiet, now>>

\* await statements.createUser(userId, email, name); a UNIQUE failure is
\* caught and becomes CONFLICT, any other error is rethrown
CreateAccountCreateUser(i) ==
  /\ pc[i] = "createAccount_createUser"
  /\ Access(i)
  /\ LET err == createUserError(users, call[i].userId, call[i].email)
     IN  IF err = ""
           THEN /\ users' = createUser(users, call[i].userId, call[i].email, call[i].name)
                /\ pc' = [pc EXCEPT ![i] = "createAccount_getUserById"]
                /\ UNCHANGED result
           ELSE /\ Finish(i, IF IsUniqueConstraintError(err)
                               THEN Thrown("CONFLICT", "User with this email already exists")
                               ELSE Thrown("INTERNAL_SERVER_ERROR", err))
                /\ UNCHANGED users
  /\ UNCHANGED <<transactions, call, local, quiet, now>>

\* await statements.getUserById(userId); return the new account
CreateAccountGetUserById(i) ==
  /\ pc[i] = "createAccount_getUserById"
  /\ Access(i)
  /\ Finish(i, UserResponse(call[i].userId, users[call[i].userId]))
  /\ UNCHANGED <<users, transactions, call, local, quiet, now>>

(* ------------------------------------------------------------------ *)
(* topUp and charge: the two handlers differ in the balance check, in *)
(* the sign of the amount and in the row's type                       *)
(* ------------------------------------------------------------------ *)

\* the input schema, then validateAmount(amount); formattedAmount is kept
Mutation(i, op, userId, amount, key) ==
  IF ~(ZodIdOk(userId) /\ ZodAmountOk(amount) /\ ZodIdOk(key))
    THEN Reject(i, op, Thrown("BAD_REQUEST", "Invalid input"))
  ELSE IF ~validateAmount(amount)
    THEN Reject(i, op, Thrown("BAD_REQUEST", "Invalid amount"))
  ELSE Enter(i, [NoCall EXCEPT !.op = op, !.userId = Trim(userId),
                               !.amount = formatCurrency(amount),
                               !.idempotencyKey = Trim(key)],
             "getTransactionByIdempotencyKey")

\* a topUp or charge arrives with one of the inputs of the model
MutationCall(i, op) ==
  /\ MayStart(i)
  /\ \E in \in MutationInputs : Mutation(i, op, in[1], in[2], in[3])

TopUpCall(i) == MutationCall(i, "topUp")

ChargeCall(i) == MutationCall(i, "charge")

\* await statements.getTransactionByIdempotencyKey(idempotencyKey)
Probe(i) ==
  /\ pc[i] = "getTransactionByIdempotencyKey"
  /\ Access(i)
  /\ LET hits == getTransactionByIdempotencyKey(transactions, call[i].idempotencyKey)
     IN  IF hits # {}
           THEN /\ local' = [local EXCEPT ![i].existingTransaction = FirstRow(transactions, hits)]
                /\ pc' = [pc EXCEPT ![i] = "duplicate_getUserById"]
           ELSE /\ pc' = [pc EXCEPT ![i] = "getUserById"]
                /\ UNCHANGED local
  /\ UNCHANGED <<users, transactions, call, result, quiet, now>>

\* the duplicate answer that reads a missing account as a balance of zero
DuplicateResponse_missingAsZero(u, userId, existingTransaction) ==
  TransactionResponse(existingTransaction.id,
                      IF UserExists(u, userId) THEN formatCurrency(u[userId].balance) ELSE 0,
                      formatCurrency(existingTransaction.amount), TRUE)

\* the duplicate answer that reports the request as newly applied
DuplicateResponse_fresh(u, userId, existingTransaction) ==
  IF UserExists(u, userId)
    THEN TransactionResponse(existingTransaction.id,
                             formatCurrency(u[userId].balance),
                             formatCurrency(existingTransaction.amount), FALSE)
    ELSE Thrown("INTERNAL_SERVER_ERROR", "TypeError")

\* the answer built from an existing transaction and the balance of the
\* account the request names; rows[0] of an empty result is undefined, and
\* reading a field of it throws a TypeError
DuplicateResponse(u, userId, existingTransaction) ==
  IF UserExists(u, userId)
    THEN TransactionResponse(existingTransaction.id,
                             formatCurrency(u[userId].balance),
                             formatCurrency(existingTransaction.amount), TRUE)
    ELSE Thrown("INTERNAL_SERVER_ERROR", "TypeError")

\* the key is known: await statements.getUserById(userId), return duplicate
DuplicateGetUserById(i) ==
  /\ pc[i] = "duplicate_getUserById"
  /\ Access(i)
  /\ Finish(i, DuplicateResponse(users, call[i].userId, local[i].existingTransaction))
  /\ UNCHANGED <<users, transactions, call, local, quiet, now>>

\* the missing account reported as a fault of the input
UserNotFound_asBadRequest == Thrown("BAD_REQUEST", "User not found")

\* throw new TRPCError({code: 'NOT_FOUND', message: 'User not found'})
UserNotFound == Thrown("NOT_FOUND", "User not found")

\* the balance check that also refuses a charge of the whole balance
InsufficientFunds_orEqual(currentBalance, formattedAmount) ==
  currentBalance <= formattedAmount

\* the balance check with its operands exchanged
InsufficientFunds_inverted(currentBalance, formattedAmount) ==
  formattedAmount < currentBalance

\* charge only: currentBalance < formattedAmount
InsufficientFunds(currentBalance, formattedAmount) == currentBalance < formattedAmount

\* what a sum or difference of two doubles may differ from the exact result:
\* nothing, or a fraction of a cent either way (a tenth of a cent stands for
\* the far smaller rounding error of the floating-point operation)
FloatDrift == {0 - 1, 0, 1}

\* the new balance with the amount added whatever the operation
NewBalance_added(op, currentBalance, formattedAmount, drift) ==
  formatCurrency(currentBalance + formattedAmount + drift)

\* the new balance as the floating-point operation left it, not rounded
NewBalance_unrounded(op, currentBalance, formattedAmount, drift) ==
  IF op = "topUp" THEN currentBalance + formattedAmount + drift
  ELSE currentBalance - formattedAmount + drift

\* formatCurrency(currentBalance + formattedAmount), or - for charge; the sum
\* is a floating-point one
NewBalance(op, currentBalance, formattedAmount, drift) ==
  IF op = "topUp" THEN formatCurrency(currentBalance + formattedAmount + drift)
  ELSE formatCurrency(currentBalance - formattedAmount + drift)

\* the handler that stores the refused charge as a row under its key
GetUserById_recordsRefusal(i) ==
  /\ pc[i] = "getUserById"
  /\ Access(i)
  /\ IF ~UserExists(users, call[i].userId)
       THEN Finish(i, UserNotFound) /\ UNCHANGED <<local, transactions>>
     ELSE \E drift \in FloatDrift :
          LET currentBalance == formatCurrency(users[call[i].userId].balance)
              newBalance == NewBalance(call[i].op, currentBalance, call[i].amount, drift)
          IN  IF call[i].op = "charge" /\ InsufficientFunds(currentBalance, call[i].amount)
                THEN /\ Finish(i, Thrown("BAD_REQUEST", "Insufficient funds"))
                     /\ transactions' = Append(transactions,
                          [id |-> generateId(i), user_id |-> call[i].userId,
                           type |-> "charge", amount |-> call[i].amount,
                           balance_after |-> currentBalance,
                           idempotency_key |-> call[i].idempotencyKey,
                           created_at |-> now])
                     /\ UNCHANGED local
              ELSE IF call[i].op = "charge" /\ newBalance < 0
                THEN Finish(i, Thrown("BAD_REQUEST", "Operation would result in negative balance"))
                     /\ UNCHANGED <<local, transactions>>
              ELSE /\ local' = [local EXCEPT ![i].newBalance = newBalance]
                   /\ pc' = [pc EXCEPT ![i] = "batch"]
                   /\ UNCHANGED <<result, transactions>>
  /\ UNCHANGED <<users, call, quiet, now>>

\* await statements.getUserById(userId); NOT_FOUND, the balance checks of
\* charge, the new balance
GetUserById(i) ==
  /\ pc[i] = "getUserById"
  /\ Access(i)
  /\ IF ~UserExists(users, call[i].userId)
       THEN Finish(i, UserNotFound) /\ UNCHANGED local
     ELSE \E drift \in FloatDrift :
          LET currentBalance == formatCurrency(users[call[i].userId].balance)
              newBalance == NewBalance(call[i].op, currentBalance, call[i].amount, drift)
          IN  IF call[i].op = "charge" /\ InsufficientFunds(currentBalance, call[i].amount)
                THEN Finish(i, Thrown("BAD_REQUEST", "Insufficient funds"))
                     /\ UNCHANGED local
              ELSE IF call[i].op = "charge" /\ newBalance < 0
                THEN Finish(i, Thrown("BAD_REQUEST", "Operation would result in negative balance"))
                     /\ UNCHANGED local
              ELSE /\ local' = [local EXCEPT ![i].newBalance = newBalance]
                   /\ pc' = [pc EXCEPT ![i] = "batch"]
                   /\ UNCHANGED result
  /\ UNCHANGED <<users, transactions, call, quiet, now>>

\* the row inserted without the key of the request
NewRow_noKey(i) ==
  [id |-> generateId(i), user_id |-> call[i].userId,
   type |-> IF call[i].op = "topUp" THEN "topup" ELSE "charge",
   amount |-> call[i].amount, balance_after |-> local[i].newBalance,
   idempotency_key |-> <<>>, created_at |-> now]

\* the row with the balance the handler read in place of the one it writes
NewRow_balanceBefore(i) ==
  [id |-> generateId(i), user_id |-> call[i].userId,
   type |-> IF call[i].op = "topUp" THEN "topup" ELSE "charge",
   amount |-> call[i].amount,
   balance_after |-> IF call[i].op = "topUp"
                       THEN local[i].newBalance - call[i].amount
                       ELSE local[i].newBalance + call[i].amount,
   idempotency_key |-> call[i].idempotencyKey, created_at |-> now]

\* the row the handler inserts; transactionId = generateId(); created_at is
\* the column's DEFAULT CURRENT_TIMESTAMP, the second of the commit
NewRow(i) ==
  [id |-> generateId(i), user_id |-> call[i].userId,
   type |-> IF call[i].op = "topUp" THEN "topup" ELSE "charge",
   amount |-> call[i].amount, balance_after |-> local[i].newBalance,
   idempotency_key |-> call[i].idempotencyKey, created_at |-> now]

\* await db.batch([...]): on success the handler returns duplicate: false,
\* on a constraint failure it goes to its catch block
Commit(i) ==
  /\ pc[i] = "batch"
  /\ Access(i)
  /\ LET b == batch(users, transactions, local[i].newBalance, call[i].userId, NewRow(i))
     IN  /\ users' = b.users
         /\ transactions' = b.transactions
         /\ IF b.error = ""
              THEN /\ Finish(i, TransactionResponse(generateId(i), local[i].newBalance,
                                                    call[i].amount, FALSE))
                   /\ UNCHANGED local
              ELSE /\ local' = [local EXCEPT ![i].error = b.error]
                   /\ pc' = [pc EXCEPT ![i] = "rollback"]
                   /\ UNCHANGED result
  /\ UNCHANGED <<call, quiet, now>>

\* the batch fails after its UPDATE has been applied and kept
CommitFails_partial(i) ==
  /\ pc[i] = "batch"
  /\ Access(i)
  /\ local' = [local EXCEPT ![i].error = "SQLITE_ERROR"]
  /\ pc' = [pc EXCEPT ![i] = "rollback"]
  /\ users' = updateBalance(users, local[i].newBalance, call[i].userId).users
  /\ UNCHANGED <<transactions, call, result, quiet, now>>

\* await db.batch([...]) fails for a reason that is no constraint (the file is
\* busy, the disk fails): nothing is written
CommitFails(i) ==
  /\ pc[i] = "batch"
  /\ Access(i)
  /\ local' = [local EXCEPT ![i].error = "SQLITE_ERROR"]
  /\ pc' = [pc EXCEPT ![i] = "rollback"]
  /\ UNCHANGED <<users, transactions, call, result, quiet, now>>

\* the catch block that runs the batch again when the key was taken
Rollback_retry(i) ==
  /\ pc[i] = "rollback"
  /\ Access(i)
  /\ IF IsUniqueConstraintError(local[i].error)
       THEN /\ pc' = [pc EXCEPT ![i] = "batch"]
            /\ UNCHANGED result
       ELSE Finish(i, Thrown("INTERNAL_SERVER_ERROR", local[i].error))
  /\ UNCHANGED <<users, transactions, call, local, quiet, now>>

\* the catch block without the UNIQUE test: every error is rethrown
Rollback_rethrow(i) ==
  /\ pc[i] = "rollback"
  /\ Access(i)
  /\ Finish(i, Thrown("INTERNAL_SERVER_ERROR", local[i].error))
  /\ UNCHANGED <<users, transactions, call, local, quiet, now>>

\* catch: await db.execute(ROLLBACK) with its own error swallowed (the batch
\* left no transaction open); then the UNIQUE test, else the error is rethrown
Rollback(i) ==
  /\ pc[i] = "rollback"
  /\ Access(i)
  /\ IF IsUniqueConstraintError(local[i].error)
       THEN /\ pc' = [pc EXCEPT ![i] = "recover_getTransactionByIdempotencyKey"]
            /\ UNCHANGED result
       ELSE Finish(i, Thrown("INTERNAL_SERVER_ERROR", local[i].error))
  /\ UNCHANGED <<users, transactions, call, local, quiet, now>>

\* race recovery: await statements.getTransactionByIdempotencyKey(key)
RecoverGetTransaction(i) ==
  /\ pc[i] = "recover_getTransactionByIdempotencyKey"
  /\ Access(i)
  /\ LET hits == getTransactionByIdempotencyKey(transactions, call[i].idempotencyKey)
     IN  IF hits # {}
           THEN /\ local' = [local EXCEPT ![i].existingTransaction = FirstRow(transactions, hits)]
                /\ pc' = [pc EXCEPT ![i] = "recover_getUserById"]
                /\ UNCHANGED result
           ELSE /\ Finish(i, Thrown("INTERNAL_SERVER_ERROR", "TypeError"))
                /\ UNCHANGED local
  /\ UNCHANGED <<users, transactions, call, quiet, now>>

\* race recovery: await statements.getUserById(userId), return duplicate
RecoverGetUserById(i) ==
  /\ pc[i] = "recover_getUserById"
  /\ Access(i)
  /\ Finish(i, DuplicateResponse(users, call[i].userId, local[i].existingTransaction))
  /\ UNCHANGED <<users, transactions, call, local, quiet, now>>

(* ------------------------------------------------------------------ *)
(* The queries getUser, getUserByEmail and getUserTransactions        *)
(* ------------------------------------------------------------------ *)

\* ids a query is called with
QueryUserIdInputs == GoodUserIdInputs \cup BadUserIdInputs

\* the input schema of getUser
GetUserCall(i) ==
  /\ MayStart(i)
  /\ \E userId \in QueryUserIdInputs :
       IF ZodIdOk(userId)
         THEN Enter(i, [NoCall EXCEPT !.op = "getUser", !.userId = Trim(userId)],
                    "getUser_getUserById")
         ELSE Reject(i, "getUser", Thrown("BAD_REQUEST", "Invalid input"))

\* await statements.getUserById(input.userId): NOT_FOUND or the account
GetUser(i) ==
  /\ pc[i] = "getUser_getUserById"
  /\ Access(i)
  /\ IF ~UserExists(users, call[i].userId)
       THEN Finish(i, UserNotFound)
       ELSE Finish(i, UserResponse(call[i].userId, users[call[i].userId]))
  /\ UNCHANGED <<users, transactions, call, local, quiet, now>>

\* the input schema of getUserByEmail
GetUserByEmailCall(i) ==
  /\ MayStart(i)
  /\ \E email \in EmailInputs :
       IF ZodEmailOk(email)
         THEN Enter(i, [NoCall EXCEPT !.op = "getUserByEmail",
                                      !.email = ToLowerCase(Trim(email))],
                    "getUserByEmail_getUserByEmail")
         ELSE Reject(i, "getUserByEmail", Thrown("BAD_REQUEST", "Invalid input"))

\* await statements.getUserByEmail(input.email): NOT_FOUND or rows[0]
GetUserByEmail(i) ==
  /\ pc[i] = "getUserByEmail_getUserByEmail"
  /\ Access(i)
  /\ LET rows == getUserByEmail(users, call[i].email)
     IN  IF rows = {}
           THEN Finish(i, Thrown("NOT_FOUND", "No user found with this email address"))
           ELSE \E id \in rows : Finish(i, UserResponse(id, users[id]))
  /\ UNCHANGED <<users, transactions, call, local, quiet, now>>

\* the input schema of getUserTransactions
GetUserTransactionsCall(i) ==
  /\ MayStart(i)
  /\ \E userId \in QueryUserIdInputs :
       IF ZodIdOk(userId)
         THEN Enter(i, [NoCall EXCEPT !.op = "getUserTransactions",
                                      !.userId = Trim(userId)],
                    "getUserTransactions_getUserById")
         ELSE Reject(i, "getUserTransactions", Thrown("BAD_REQUEST", "Invalid input"))

\* await statements.getUserById(input.userId): NOT_FOUND when no row
GetUserTransactionsGetUserById(i) ==
  /\ pc[i] = "getUserTransactions_getUserById"
  /\ Access(i)
  /\ IF ~UserExists(users, call[i].userId)
       THEN Finish(i, UserNotFound)
       ELSE /\ pc' = [pc EXCEPT ![i] = "getUserTransactions_getUserTransactions"]
            /\ UNCHANGED result
  /\ UNCHANGED <<users, transactions, call, local, quiet, now>>

\* await statements.getUserTransactions(input.userId); the rows are mapped to
\* history items in the order the store returned them
GetUserTransactions(i) ==
  /\ pc[i] = "getUserTransactions_getUserTransactions"
  /\ Access(i)
  /\ \E rows \in getUserTransactions(transactions, call[i].userId) :
       Finish(i, TransactionHistory(rows))
  /\ UNCHANGED <<users, transactions, call, local, quiet, now>>

\* the store's clock (CURRENT_TIMESTAMP) reaches the next second; a second in
\* which no row was stamped is not told apart from the one before it
Tick ==
  /\ \E n \in 1..Len(transactions) : transactions[n].created_at = now
  /\ now' = now + 1
  /\ UNCHANGED <<users, transactions, pc, call, local, result, quiet, accesses>>

(* ------------------------------------------------------------------ *)
(* Specification                                                      *)
(* ------------------------------------------------------------------ *)

Next ==
  \E i \in Procs :
    \/ CreateAccountCall(i)
    \/ CreateAccountGetUserByEmail(i)
    \/ CreateAccountCreateUser(i)
    \/ CreateAccountGetUserById(i)
    \/ TopUpCall(i)
    \/ ChargeCall(i)
    \/ Probe(i)
    \/ DuplicateGetUserById(i)
    \/ GetUserById(i)
    \/ Commit(i)
    \/ CommitFails(i)
    \/ Rollback(i)
    \/ RecoverGetTransaction(i)
    \/ RecoverGetUserById(i)

\* the mutations alone, all within one second of the store's clock
Spec == Init /\ [][Next]_vars

\* one client that sends a request only when every earlier one is answered:
\* the mutations, the queries and the clock.  Without overlapping requests
\* no commit loses a race, so the recovery steps are not part of it
NextSequential ==
  \/ Tick
  \/ \E i \in Procs :
       \/ NoneInFlight /\ CreateAccountCall(i)
       \/ NoneInFlight /\ TopUpCall(i)
       \/ NoneInFlight /\ ChargeCall(i)
       \/ NoneInFlight /\ GetUserCall(i)
       \/ NoneInFlight /\ GetUserByEmailCall(i)
       \/ NoneInFlight /\ GetUserTransactionsCall(i)
       \/ CreateAccountGetUserByEmail(i)
       \/ CreateAccountCreateUser(i)
       \/ CreateAccountGetUserById(i)
       \/ Probe(i)
       \/ DuplicateGetUserById(i)
       \/ GetUserById(i)
       \/ Commit(i)
       \/ CommitFails(i)
       \/ Rollback(i)
       \/ GetUser(i)
       \/ GetUserByEmail(i)
       \/ GetUserTransactionsGetUserById(i)
       \/ GetUserTransactions(i)

SpecSequential == Init /\ [][NextSequential]_vars

(* ------------------------------------------------------------------ *)
(* The documented scenario: one client, two new accounts, the         *)
(* requests of the README's examples and their neighbours             *)
(* ------------------------------------------------------------------ *)

\* an amount given in cents
Cents(n) == n * (Unit \div CURRENCY_PRECISION)

LedgerA == <<"a">>

LedgerB == <<"b">>

Key1 == <<"k", "1">>

Key2 == <<"k", "2">>

Key3 == <<"k", "3">>

\* credit 100.50 under k1, the same again, debit 25.75 under k2, debit
\* 1000.00 under k3, all on account A
Scenario ==
  << [op |-> "topUp", userId |-> LedgerA, amount |-> Cents(10050), key |-> Key1],
     [op |-> "topUp", userId |-> LedgerA, amount |-> Cents(10050), key |-> Key1],
     [op |-> "charge", userId |-> LedgerA, amount |-> Cents(2575), key |-> Key2],
     [op |-> "charge", userId |-> LedgerA, amount |-> Cents(100000), key |-> Key3] >>

\* the client sends as many requests as the scenario has
LedgerProcs == 1..Len(Scenario)

\* the requests of the scenario; credits of 0.01 and 0.02; a debit of the
\* whole balance the first credit leaves; requests on account B under the key
\* of the first credit; the largest amount, one above it, and a half cent; the
\* scenario's first debit asked for an account that does not exist
LedgerRequests ==
  {Scenario[n] : n \in 1..Len(Scenario)}
    \cup {[op |-> "topUp", userId |-> LedgerA, amount |-> Cents(1), key |-> Key1],
          [op |-> "topUp", userId |-> LedgerA, amount |-> Cents(2), key |-> Key2],
          [op |-> "charge", userId |-> LedgerA, amount |-> Cents(10050), key |-> Key2],
          [op |-> "topUp", userId |-> LedgerB, amount |-> Cents(1), key |-> Key1],
          [op |-> "charge", userId |-> LedgerB, amount |-> Cents(1), key |-> Key1],
          [op |-> "topUp", userId |-> LedgerA, amount |-> MAX_AMOUNT, key |-> Key3],
          [op |-> "topUp", userId |-> LedgerA, amount |-> MAX_AMOUNT + Cents(1), key |-> Key3],
          [op |-> "charge", userId |-> LedgerA, amount |-> Cents(1) + Cents(1) \div 2, key |-> Key3],
          [op |-> "charge", userId |-> GhostId, amount |-> Cents(2575), key |-> Key2]}

\* the store after createAccount has run twice: two accounts, no transaction
InitLedger ==
  /\ users = createUser(createUser([x \in {} |-> NoAccount], LedgerA, SeedEmail, <<"n">>),
                        LedgerB, <<"c", "@", "b">>, <<"n">>)
  /\ transactions = <<>>
  /\ pc = [i \in LedgerProcs |-> "idle"]
  /\ call = [i \in LedgerProcs |-> NoCall]
  /\ local = [i \in LedgerProcs |-> NoLocal]
  /\ result = [i \in LedgerProcs |-> NoResult]
  /\ quiet = [i \in LedgerProcs |-> FALSE]
  /\ accesses = [i \in LedgerProcs |-> 0]
  /\ now = 0

\* the client sends its next request once the one before is answered
LedgerCall(i) ==
  /\ MayStart(i)
  /\ NoneInFlight
  /\ \E r \in LedgerRequests : Mutation(i, r.op, r.userId, r.amount, r.key)

NextLedger ==
  \E i \in LedgerProcs :
    \/ LedgerCall(i)
    \/ Probe(i)
    \/ DuplicateGetUserById(i)
    \/ GetUserById(i)
    \/ Commit(i)

SpecLedger == InitLedger /\ [][NextLedger]_vars

(* ------------------------------------------------------------------ *)
(* The REST wrappers POST /api/account/create and /api/account/topup  *)
(* ------------------------------------------------------------------ *)

\* a field that is absent from the JSON body, or the empty string: both are
\* falsy.  The amount of a body is <<>> when absent and <<n>> when present
Absent == <<>>

CreateBodies ==
  {[email |-> e, name |-> <<"n">>] : e \in {<<"a", "@", "b">>, <<"c", "@", "b">>, <<"a">>, Absent}}
    \cup {[email |-> <<"c", "@", "b">>, name |-> Absent]}

TopupBodies ==
  {[userId |-> u, amount |-> <<MIN_AMOUNT>>, idempotencyKey |-> k] :
     u \in DOMAIN users \cup {GhostId}, k \in {<<"k">>, <<"j">>}}
    \cup {[userId |-> Absent, amount |-> <<MIN_AMOUNT>>, idempotencyKey |-> <<"k">>],
          [userId |-> GhostId, amount |-> Absent, idempotencyKey |-> <<"k">>],
          [userId |-> GhostId, amount |-> <<0>>, idempotencyKey |-> <<"k">>],
          [userId |-> GhostId, amount |-> <<MIN_AMOUNT>>, idempotencyKey |-> Absent]}

MissingCreateFields == "Missing required fields. Both email and name are required."

MissingTopupFields ==
  "Missing required fields. userId, amount, and idempotencyKey are required."

\* NextResponse.json({error}, {status: 400}) before any procedure is called:
\* call keeps the fields of the body as they came, its op stays "none"
MissingFields(i, c, message) ==
  /\ pc' = [pc EXCEPT ![i] = "done"]
  /\ call' = [call EXCEPT ![i] = c]
  /\ result' = [result EXCEPT ![i] = [NoResult EXCEPT !.status = "error",
                                                      !.message = message,
                                                      !.http = 400]]
  /\ quiet' = [quiet EXCEPT ![i] = NoneInFlight]
  /\ UNCHANGED <<users, transactions, local, accesses, now>>

\* POST /api/account/create: the required fields, then caller.createAccount
PostAccountCreate(i) ==
  /\ MayStart(i)
  /\ \E body \in CreateBodies :
       IF body.email = Absent \/ body.name = Absent
         THEN MissingFields(i, [NoCall EXCEPT !.email = body.email, !.name = body.name],
                            MissingCreateFields)
         ELSE CreateAccount(i, body.email, body.name)

\* POST /api/account/topup: the required fields, then caller.topUp
PostAccountTopup(i) ==
  /\ MayStart(i)
  /\ \E body \in TopupBodies :
       IF body.userId = Absent \/ body.amount = Absent \/ body.idempotencyKey = Absent
         THEN MissingFields(i, [NoCall EXCEPT !.userId = body.userId,
                                              !.idempotencyKey = body.idempotencyKey],
                            MissingTopupFields)
         ELSE Mutation(i, "topUp", body.userId, body.amount[1], body.idempotencyKey)

\* the status of /api/account/create with every failure answered 400
CreateStatus_all400(r) ==
  IF r.status = "success" THEN 201 ELSE 400

\* the status of /api/account/create: 201, or by the code of the TRPCError
CreateStatus(r) ==
  IF r.status = "success" THEN 201
  ELSE IF r.code = "CONFLICT" THEN 409
  ELSE IF r.code = "BAD_REQUEST" THEN 400
  ELSE 500

\* the status of /api/account/topup: 200, or by the code of the TRPCError
TopupStatus(r) ==
  IF r.status = "success" THEN 200
  ELSE IF r.code = "NOT_FOUND" THEN 404
  ELSE IF r.code = "BAD_REQUEST" THEN 400
  ELSE 500

\* the procedure has settled and the route handler resumes after its await:
\* NextResponse.json(result, {status}) or the catch block's mapping
NextResponseJson(i) ==
  /\ pc[i] = "done"
  /\ result[i].http = 0
  /\ result' = [result EXCEPT ![i].http =
                  IF call[i].op = "createAccount" THEN CreateStatus(result[i])
                  ELSE TopupStatus(result[i])]
  /\ UNCHANGED <<users, transactions, pc, call, local, quiet, accesses, now>>

\* concurrent clients of the two REST endpoints
NextRest ==
  \E i \in Procs :
    \/ PostAccountCreate(i)
    \/ PostAccountTopup(i)
    \/ CreateAccountGetUserByEmail(i)
    \/ CreateAccountCreateUser(i)
    \/ CreateAccountGetUserById(i)
    \/ Probe(i)
    \/ DuplicateGetUserById(i)
    \/ GetUserById(i)
    \/ Commit(i)
    \/ CommitFails(i)
    \/ Rollback(i)
    \/ RecoverGetTransaction(i)
    \/ RecoverGetUserById(i)
    \/ NextResponseJson(i)

SpecRest == Init /\ [][NextRest]_vars

(* ------------------------------------------------------------------ *)
(* topUp and charge under fair scheduling                             *)
(* ------------------------------------------------------------------ *)

\* the continuation of request i after the await it is suspended at: the
\* store answers every statement, with rows or with an error, and the event
\* loop runs the continuation of every settled promise
Continue(i) ==
  \/ Probe(i)
  \/ DuplicateGetUserById(i)
  \/ GetUserById(i)
  \/ Commit(i)
  \/ CommitFails(i)
  \/ Rollback(i)
  \/ RecoverGetTransaction(i)
  \/ RecoverGetUserById(i)

\* requests that meet on one key: for an account that exists or for none, of
\* 0.01 or of more than the account holds, and one with an amount of zero
FairInputs ==
  ((DOMAIN users \cup {GhostId}) \X {MIN_AMOUNT, SeedBalance + MIN_AMOUNT} \X {<<"k">>})
    \cup {<<GhostId, 0, <<"k">>>>}

FairCall(i) ==
  /\ MayStart(i)
  /\ \E op \in {"topUp", "charge"} : \E in \in FairInputs :
       Mutation(i, op, in[1], in[2], in[3])

NextFair ==
  \E i \in Procs :
    \/ FairCall(i)
    \/ Continue(i)

\* concurrent topUp and charge requests, none of them suspended forever
SpecFair == Init /\ [][NextFair]_vars /\ \A i \in Procs : WF_vars(Continue(i))

(* ------------------------------------------------------------------ *)
(* Properties                                                         *)
(* ------------------------------------------------------------------ *)

\* a topUp or charge whose input passed the schema
IsMutation(i) == call[i].op \in {"topUp", "charge"} /\ call[i].idempotencyKey # <<>>

\* the balance the account had before any request of the behaviour
StartBalance(u) == IF u = SeedUserId THEN SeedBalance ELSE 0

\* the positions of the rows stored under a key
RowsOfKey(k) == {n \in 1..Len(transactions) : transactions[n].idempotency_key = k}

\* the sum of the amounts of the rows of account u that have the given type
RECURSIVE SumOf(_, _, _)
SumOf(t, u, type) ==
  IF t = <<>> THEN 0
  ELSE (IF Head(t).user_id = u /\ Head(t).type = type THEN Head(t).amount ELSE 0)
         + SumOf(Tail(t), u, type)

\* the store failed under request i for a reason that is no constraint
StoreFailed(i) == local[i].error = "SQLITE_ERROR"

\* request i lost the race for its key: its commit failed on the uniqueness
\* of the idempotency key
LostRace(i) == local[i].error = "UNIQUE constraint failed: transactions.idempotency_key"

\* C1: in every reachable state the transactions table holds at most one row
\* for any idempotency key, under any interleaving of topUp and charge.
C1_UniqueIdempotencyKey ==
  \A m, n \in 1..Len(transactions) :
    transactions[m].idempotency_key = transactions[n].idempotency_key => m = n

\* C1 witness: two requests raced on one key and the store refused the second row
C1_Witness ==
  \E i \in Procs : LostRace(i) /\ RowsOfKey(call[i].idempotencyKey) # {}

\* C2: when the only mutations of a behaviour are topUp calls with one key on
\* one account, all answered and none hit by a store failure, then exactly one
\* row is stored under the key, it belongs to the account, and the balance is
\* the starting balance plus that row's amount, once.
C2_ConcurrentDuplicateTopUps ==
  \A u \in DOMAIN users :
    \A k \in {call[i].idempotencyKey : i \in Procs} :
      LET S == {i \in Procs : IsMutation(i)}
      IN  ( /\ S # {}
            /\ \A i \in S : /\ call[i].op = "topUp"
                            /\ call[i].userId = u
                            /\ call[i].idempotencyKey = k
                            /\ pc[i] = "done"
                            /\ ~StoreFailed(i) )
          => /\ Cardinality(RowsOfKey(k)) = 1
             /\ \A n \in RowsOfKey(k) :
                  /\ transactions[n].user_id = u
                  /\ transactions[n].amount \in {call[i].amount : i \in S}
                  /\ users[u].balance = StartBalance(u) + transactions[n].amount

\* C2 witness: two topUps with one key on one account overlapped, one went
\* through the failing commit, and both are answered
C2_Witness ==
  \E i, j \in Procs :
    /\ i # j /\ IsMutation(i) /\ IsMutation(j)
    /\ call[i].op = "topUp" /\ call[j].op = "topUp"
    /\ call[i].userId = call[j].userId
    /\ call[i].idempotencyKey = call[j].idempotencyKey
    /\ \A x \in Procs : IsMutation(x) => pc[x] = "done" /\ call[x].op = "topUp"
                                          /\ call[x].idempotencyKey = call[i].idempotencyKey
                                          /\ call[x].userId = call[i].userId
    /\ LostRace(j)
    /\ result[i].status = "success" /\ result[j].status = "success"

\* C3: the balance of every account is >= 0 in every reachable state.
C3_BalanceNeverNegative == \A u \in DOMAIN users : users[u].balance >= 0

\* C3 witness: a charge has brought an account to 0.00 and another charge on
\* that account was refused
C3_Witness ==
  \E n \in 1..Len(transactions) :
    /\ transactions[n].type = "charge"
    /\ users[transactions[n].user_id].balance = 0
    /\ \E i \in Procs : /\ call[i].op = "charge"
                        /\ call[i].userId = transactions[n].user_id
                        /\ result[i].message = "Insufficient funds"

\* C4: no lost update: when every topUp and charge request uses its own
\* idempotency key, an account's balance equals the sum of its committed topup
\* amounts minus the sum of its committed charge amounts.
C4_NoLostUpdate ==
  (\A i, j \in Procs :
     IsMutation(i) /\ IsMutation(j) /\ i # j
       => call[i].idempotencyKey # call[j].idempotencyKey)
  => \A u \in DOMAIN users :
       users[u].balance
         = SumOf(transactions, u, "topup") - SumOf(transactions, u, "charge")

\* C5: two concurrent charges with distinct keys cannot both succeed when the
\* balance covers only one of them: with no topUp among the requests, the
\* committed charges of an account never add up to more than its starting balance.
C5_NoDoubleSpend ==
  (/\ \A i \in Procs : call[i].op # "topUp"
   /\ \A i, j \in Procs :
        IsMutation(i) /\ IsMutation(j) /\ i # j
          => call[i].idempotencyKey # call[j].idempotencyKey)
  => \A u \in DOMAIN users : SumOf(transactions, u, "charge") <= StartBalance(u)

\* the position of the row request i inserted, 0 when it inserted none
RowOf(i) ==
  LET hits == {n \in 1..Len(transactions) : transactions[n].id = generateId(i)}
  IN  IF hits = {} THEN 0 ELSE CHOOSE n \in hits : TRUE

\* no row of the account of request i was committed after the row of request i
LastOnAccount(i) ==
  /\ RowOf(i) # 0
  /\ \A n \in 1..Len(transactions) :
       transactions[n].user_id = call[i].userId => n <= RowOf(i)

\* C6: idempotence: when a topUp or charge was answered with duplicate=false
\* and the same call (same account, amount and key) is made again after that
\* answer, with nothing else committed on the account in between, the second
\* answer carries the same transactionId and the same newBalance with
\* duplicate=true, and the balance has changed only once.
C6_Idempotence ==
  \A i, j \in Procs :
    ( /\ i < j /\ quiet[j] /\ IsMutation(i) /\ call[j] = call[i]
      /\ pc[i] = "done" /\ pc[j] = "done"
      /\ result[i].status = "success" /\ ~result[i].duplicate
      /\ LastOnAccount(i) )
    => /\ result[j].status = "success"
       /\ result[j].duplicate
       /\ result[j].transactionId = result[i].transactionId
       /\ result[j].newBalance = result[i].newBalance
       /\ result[j].amount = result[i].amount
       /\ users[call[i].userId].balance = result[i].newBalance
       /\ users[call[i].userId].balance = transactions[RowOf(i)].balance_after
       /\ Cardinality(RowsOfKey(call[i].idempotencyKey)) = 1

\* C6 witness: the same charge was made twice, the second time after the
\* first was answered
C6_Witness ==
  \E i, j \in Procs :
    /\ i < j /\ quiet[j] /\ IsMutation(i) /\ call[j] = call[i] /\ call[i].op = "charge"
    /\ pc[i] = "done" /\ pc[j] = "done"
    /\ result[i].status = "success" /\ ~result[i].duplicate
    /\ LastOnAccount(i)
    /\ result[j].duplicate

\* C7: race recovery: a commit that fails on the uniqueness of the
\* idempotency key changes neither a balance nor the transaction table, and
\* the request then ends with success, duplicate=true and the transactionId
\* and amount of the row another request stored under the key, never an error.
C7_RaceRecovery ==
  [][\A i \in Procs :
       /\ (pc[i] = "batch" /\ pc'[i] = "rollback" /\ IsUniqueConstraintError(local'[i].error))
            => /\ users' = users
               /\ transactions' = transactions
               /\ \E n \in RowsOfKey(call[i].idempotencyKey) :
                    transactions[n].id # generateId(i)
       /\ (IsUniqueConstraintError(local[i].error) /\ pc[i] # "done" /\ pc'[i] = "done")
            => \E n \in RowsOfKey(call[i].idempotencyKey) :
                 /\ transactions[n].id # generateId(i)
                 /\ result'[i].status = "success"
                 /\ result'[i].duplicate
                 /\ result'[i].transactionId = transactions[n].id
                 /\ result'[i].amount = transactions[n].amount
                 /\ users' = users /\ transactions' = transactions
    ]_vars

\* C7 witness: a charge whose commit failed on the key has been answered
C7_Witness ==
  \E i \in Procs :
    LostRace(i) /\ pc[i] = "done" /\ call[i].op = "charge" /\ result[i].duplicate

\* C8: a charge with an unused key whose amount exceeds the balance it reads
\* is rejected with "Insufficient funds", changes no balance and inserts no row.
C8_InsufficientFundsRejected ==
  [][\A i \in Procs :
       ( /\ pc[i] = "getUserById" /\ pc'[i] # pc[i]
         /\ call[i].op = "charge"
         /\ call[i].userId \in DOMAIN users
         /\ users[call[i].userId].balance < call[i].amount )
       => /\ pc'[i] = "done"
          /\ result'[i].status = "error"
          /\ result'[i].code = "BAD_REQUEST"
          /\ result'[i].message = "Insufficient funds"
          /\ users' = users
          /\ transactions' = transactions
    ]_vars

\* C8 witness: a charge of more than the balance has been rejected and the
\* account still holds its balance
C8_Witness ==
  \E i \in Procs :
    /\ call[i].op = "charge" /\ result[i].message = "Insufficient funds"
    /\ call[i].userId \in DOMAIN users
    /\ users[call[i].userId].balance > 0
    /\ users[call[i].userId].balance < call[i].amount
    /\ RowOf(i) = 0

\* C9: the commit is atomic: every step either leaves all balances and the
\* transaction table as they were, or appends one row and sets the balance of
\* the row's account to the row's balance_after; a balance never changes
\* without its row and no row appears without its balance, a failed commit
\* included.
C9_AtomicCommit ==
  [][\/ /\ transactions' = transactions
        /\ \A u \in DOMAIN users :
             u \in DOMAIN users' /\ users'[u].balance = users[u].balance
     \/ \E i \in Procs :
          /\ pc[i] = "batch"
          /\ transactions' = Append(transactions, NewRow(i))
          /\ call[i].userId \in DOMAIN users
          /\ users' = [users EXCEPT ![call[i].userId].balance = NewRow(i).balance_after]
    ]_vars

\* C9 witness: one commit went through and a later one failed, with a new
\* balance other than the one the account holds
C9_Witness ==
  \E i \in Procs :
    /\ LostRace(i)
    /\ call[i].userId \in DOMAIN users
    /\ users[call[i].userId].balance # local[i].newBalance

\* C10: when the store does not fail, every answered topUp or charge ended in
\* success (duplicate or not) or in one of the terminal errors AccountNotFound
\* (NOT_FOUND), InsufficientFunds or InvalidArgument (BAD_REQUEST).
C10_TerminalOutcomes ==
  \A i \in Procs :
    (call[i].op \in {"topUp", "charge"} /\ pc[i] = "done" /\ ~StoreFailed(i))
    => \/ result[i].status = "success"
       \/ result[i].status = "error" /\ result[i].code \in {"NOT_FOUND", "BAD_REQUEST"}

\* C11: when the early probe of a topUp or charge has found a transaction
\* under the request's key, the request changes no balance and inserts no row,
\* and it is answered with success, duplicate=true, the transactionId and the
\* amount of that transaction and the current balance of the account it names.
C11_DuplicateProbe ==
  [][\A i \in Procs :
       (pc[i] = "duplicate_getUserById" /\ pc'[i] = "done")
       => /\ users' = users
          /\ transactions' = transactions
          /\ result'[i].status = "success"
          /\ result'[i].duplicate
          /\ result'[i].transactionId = local[i].existingTransaction.id
          /\ result'[i].amount = local[i].existingTransaction.amount
          /\ call[i].userId \in DOMAIN users
          /\ result'[i].newBalance = users[call[i].userId].balance
    ]_vars

\* C12: a topUp or charge whose key the probe did not find and whose account
\* id names no account is answered with NOT_FOUND ("User not found"); the
\* step changes no balance and inserts no row.
C12_AccountNotFound ==
  [][\A i \in Procs :
       ( /\ pc[i] = "getUserById" /\ pc'[i] # pc[i]
         /\ call[i].userId \notin DOMAIN users )
       => /\ pc'[i] = "done"
          /\ result'[i].status = "error"
          /\ result'[i].code = "NOT_FOUND"
          /\ result'[i].message = "User not found"
          /\ users' = users
          /\ transactions' = transactions
    ]_vars

\* C12 witness: a charge on an account id that does not exist has been
\* answered with NOT_FOUND while another account holds a balance, and it left
\* no row
C12_Witness ==
  \E i \in Procs :
    /\ call[i].op = "charge" /\ pc[i] = "done"
    /\ call[i].userId \notin DOMAIN users
    /\ result[i].code = "NOT_FOUND"
    /\ RowOf(i) = 0
    /\ RowsOfKey(call[i].idempotencyKey) = {}
    /\ \E u \in DOMAIN users : users[u].balance > 0

\* request i was refused by the input schema or by validateAmount
Invalid(i) ==
  /\ pc[i] = "done"
  /\ result[i].code = "BAD_REQUEST"
  /\ result[i].message \in {"Invalid input", "Invalid amount"}

\* C13: a topUp or charge whose input fails validation has sent no statement
\* to the store, neither a read nor a write, and left no row; a topUp or
\* charge that has sent a statement carries an account id and a key of 1 to
\* 255 characters and an amount between MIN_AMOUNT and MAX_AMOUNT with at
\* most two decimals.
C13_ValidationBeforeStorage ==
  \A i \in Procs :
    call[i].op \in {"topUp", "charge"}
    => /\ Invalid(i) => accesses[i] = 0 /\ RowOf(i) = 0
       /\ accesses[i] > 0
            => /\ Len(call[i].userId) \in 1..MaxStrLen
               /\ Len(call[i].idempotencyKey) \in 1..MaxStrLen
               /\ call[i].amount \in MIN_AMOUNT..MAX_AMOUNT
               /\ call[i].amount % (Unit \div CURRENCY_PRECISION) = 0

\* C13 witness: a charge was refused for its input without a statement sent,
\* while another request has been to the store
C13_Witness ==
  \E i, j \in Procs :
    /\ call[i].op = "charge" /\ Invalid(i)
    /\ accesses[i] = 0
    /\ accesses[j] > 0

\* no request other than i and j is a topUp or charge on the account or under
\* the key of request i
OnlyTheseTouch(i, j) ==
  \A k \in Procs \ {i, j} :
    IsMutation(k) => /\ call[k].userId # call[i].userId
                     /\ call[k].idempotencyKey # call[i].idempotencyKey

\* the balance of the account of request i after its amount was applied once
\* to the balance the account started with
AppliedOnce(i) ==
  IF call[i].op = "topUp" THEN StartBalance(call[i].userId) + call[i].amount
  ELSE StartBalance(call[i].userId) - call[i].amount

\* C14: a topUp or charge whose commit failed for a storage reason that is no
\* uniqueness violation has stored no row, and, with no other request on its
\* account or key, has left the balance and the key as they were; when the
\* same call is made again after the failure was answered and the store does
\* not fail again, it is answered with duplicate=false, exactly one row is
\* stored under the key and the amount is applied to the balance once.
C14_StorageFailureRetry ==
  \A i \in Procs :
    (IsMutation(i) /\ StoreFailed(i))
    => /\ RowOf(i) = 0
       /\ OnlyTheseTouch(i, i)
            => /\ users[call[i].userId].balance = StartBalance(call[i].userId)
               /\ RowsOfKey(call[i].idempotencyKey) = {}
       /\ \A j \in Procs :
            ( /\ i < j /\ quiet[j] /\ call[j] = call[i]
              /\ pc[j] = "done" /\ ~StoreFailed(j)
              /\ OnlyTheseTouch(i, j) )
            => /\ result[i].status = "error"
               /\ result[j].status = "success"
               /\ ~result[j].duplicate
               /\ RowsOfKey(call[i].idempotencyKey) = {RowOf(j)}
               /\ result[j].newBalance = AppliedOnce(i)
               /\ users[call[i].userId].balance = AppliedOnce(i)

\* C14 witness: a charge failed in the store, was answered with the error and
\* was then made again with the same key and answered
C14_Witness ==
  \E i, j \in Procs :
    /\ IsMutation(i) /\ StoreFailed(i) /\ call[i].op = "charge"
    /\ i < j /\ quiet[j] /\ call[j] = call[i]
    /\ pc[j] = "done" /\ ~StoreFailed(j)
    /\ result[i].code = "INTERNAL_SERVER_ERROR"
    /\ RowOf(j) # 0

\* the createAccount calls that passed the schema with the normalized email e
CreatorsOf(e) == {i \in Procs : call[i].op = "createAccount" /\ call[i].email = e}

\* the createAccount call i was answered with the account it created
Created(i) ==
  /\ pc[i] = "done" /\ result[i].status = "success"
  /\ result[i].account.id = generateId(i)
  /\ generateId(i) \in DOMAIN users

\* C15: no two account rows hold the same normalized email; and once all
\* createAccount calls with one normalized email are answered, sequential or
\* overlapping, exactly one of them created the row with that email and every
\* other one failed with CONFLICT (none of them when the email was already
\* taken before the first call).
C15_UniqueEmail ==
  /\ \A u, v \in DOMAIN users : users[u].email = users[v].email => u = v
  /\ \A e \in {call[i].email : i \in Procs} \ {<<>>} :
       (\A i \in CreatorsOf(e) : pc[i] = "done")
       => /\ \A i \in CreatorsOf(e) :
               \/ Created(i) /\ users[generateId(i)].email = e
               \/ /\ result[i].status = "error" /\ result[i].code = "CONFLICT"
                  /\ generateId(i) \notin DOMAIN users
          /\ Cardinality({i \in CreatorsOf(e) : Created(i)})
               = (IF e = SeedEmail /\ SeedUserId \in DOMAIN users THEN 0 ELSE 1)
          /\ Cardinality(getUserByEmail(users, e)) = 1

\* C15 witness: two createAccount calls with one normalized email overlapped,
\* both passed the lookup by email, and the store refused the second row
C15_Witness ==
  \E i, j \in Procs :
    /\ i # j /\ call[i].op = "createAccount" /\ call[j].email = call[i].email
    /\ call[j].op = "createAccount"
    /\ Created(i)
    /\ pc[j] = "done" /\ result[j].code = "CONFLICT" /\ accesses[j] = 2

\* C16: the row createAccount inserts has balance 0.00 and no transaction
\* row names it, and the answer of createAccount reports balance 0.00.
C16_NewAccountZero ==
  [][\A i \in Procs :
       /\ (pc[i] = "createAccount_createUser" /\ pc'[i] = "createAccount_getUserById")
            => /\ call[i].userId \notin DOMAIN users
               /\ call[i].userId \in DOMAIN users'
               /\ users'[call[i].userId].balance = 0
               /\ \A n \in 1..Len(transactions') :
                    transactions'[n].user_id # call[i].userId
       /\ (pc[i] = "createAccount_getUserById" /\ pc'[i] = "done")
            => /\ result'[i].status = "success"
               /\ result'[i].account.id = call[i].userId
               /\ result'[i].account.balance = 0
    ]_vars

\* C17: no step deletes an account row or changes its email or name (the id is
\* the key of the row), and no step deletes or changes a transaction row: the
\* table only grows at its end.  What a step may change in a stored row is the
\* balance of an account.
C17_RowsImmutable ==
  [][/\ \A u \in DOMAIN users :
          /\ u \in DOMAIN users'
          /\ users'[u].email = users[u].email
          /\ users'[u].name = users[u].name
     /\ Len(transactions') >= Len(transactions)
     /\ \A n \in 1..Len(transactions) : transactions'[n] = transactions[n]
    ]_vars

\* C17 witness: an account created in this behaviour has had its balance
\* changed in place, and the table holds the row of that change
C17_Witness ==
  \E i \in Procs :
    /\ call[i].op = "createAccount"
    /\ generateId(i) \in DOMAIN users
    /\ users[generateId(i)].balance > 0
    /\ \E n \in 1..Len(transactions) : transactions[n].user_id = generateId(i)

\* the positions of the rows of account u, in the order they were committed
RowsOfUser(u) == {n \in 1..Len(transactions) : transactions[n].user_id = u}

\* the position of the row of account u committed last
LastRowOfUser(u) == CHOOSE n \in RowsOfUser(u) : \A m \in RowsOfUser(u) : m <= n

\* C18: in every reachable state, under any interleaving, the balance of an
\* account equals the balance_after of the transaction row committed last on
\* that account, and 0.00 when the account has no transaction row; so right
\* after a commit the new row's balance_after is the balance of its account.
C18_BalanceIsLastBalanceAfter ==
  \A u \in DOMAIN users :
    IF RowsOfUser(u) = {} THEN users[u].balance = 0
    ELSE users[u].balance = transactions[LastRowOfUser(u)].balance_after

\* C18 witness: two overlapping topUps both committed on one account, the
\* second from a balance read before the first commit
C18_Witness ==
  \E i, j \in Procs :
    /\ i # j /\ RowOf(i) # 0 /\ RowOf(i) < RowOf(j)
    /\ call[i].userId = call[j].userId
    /\ call[i].op = "topUp" /\ call[j].op = "topUp"
    /\ LastRowOfUser(call[j].userId) = RowOf(j)
    /\ users[call[j].userId].balance
         < transactions[RowOf(i)].balance_after + call[j].amount

\* the position of the row with the given id in the table: its commit order
PositionOf(id) == CHOOSE n \in 1..Len(transactions) : transactions[n].id = id

\* C19: every history that getUserTransactions has returned lists the rows
\* newest first: of two rows of the account, the one committed later stands
\* before the one committed earlier.
C19_NewestFirst ==
  \A i \in Procs :
    (call[i].op = "getUserTransactions" /\ result[i].status = "success")
    => \A a, b \in 1..Len(result[i].history) :
         a < b => PositionOf(result[i].history[a].id) > PositionOf(result[i].history[b].id)

\* the account row with the given id as a query reports it
StoredAccount(id) ==
  [id |-> id, email |-> users[id].email, name |-> users[id].name,
   balance |-> users[id].balance]

\* C20: the store step of a query changes no account and no transaction row;
\* getUser and getUserTransactions answer NOT_FOUND when no account has the
\* id, getUserByEmail when no account has the email; otherwise getUser and
\* getUserByEmail answer with the stored account, and getUserTransactions
\* with one item for each transaction row owned by the account and no other.
C20_Queries ==
  [][\A i \in Procs :
       (call[i].op \in {"getUser", "getUserByEmail", "getUserTransactions"}
        /\ pc'[i] # pc[i])
       => /\ users' = users
          /\ transactions' = transactions
          /\ (pc[i] \in {"getUser_getUserById", "getUserTransactions_getUserById"}
              /\ call[i].userId \notin DOMAIN users)
               => /\ pc'[i] = "done"
                  /\ result'[i].status = "error" /\ result'[i].code = "NOT_FOUND"
          /\ (pc[i] = "getUser_getUserById" /\ call[i].userId \in DOMAIN users)
               => /\ pc'[i] = "done" /\ result'[i].status = "success"
                  /\ result'[i].account = StoredAccount(call[i].userId)
          /\ (pc[i] = "getUserTransactions_getUserById" /\ call[i].userId \in DOMAIN users)
               => pc'[i] = "getUserTransactions_getUserTransactions"
          /\ pc[i] = "getUserByEmail_getUserByEmail"
               => /\ pc'[i] = "done"
                  /\ IF \E u \in DOMAIN users : users[u].email = call[i].email
                       THEN /\ result'[i].status = "success"
                            /\ result'[i].account.id \in DOMAIN users
                            /\ result'[i].account = StoredAccount(result'[i].account.id)
                            /\ result'[i].account.email = call[i].email
                       ELSE result'[i].status = "error" /\ result'[i].code = "NOT_FOUND"
          /\ pc[i] = "getUserTransactions_getUserTransactions"
               => /\ pc'[i] = "done" /\ result'[i].status = "success"
                  /\ Len(result'[i].history) = Cardinality(RowsOfUser(call[i].userId))
                  /\ \A n \in RowsOfUser(call[i].userId) :
                       \E k \in 1..Len(result'[i].history) :
                         result'[i].history[k] = TransactionHistoryItem(transactions[n])
    ]_vars

\* C20 witness: getUserTransactions was answered with the rows of its account
\* while the table holds a row of another account
C20_Witness ==
  \E i \in Procs :
    /\ call[i].op = "getUserTransactions" /\ result[i].status = "success"
    /\ Len(result[i].history) = Cardinality(RowsOfUser(call[i].userId))
    /\ Len(result[i].history) < Len(transactions)

\* the first m requests of the client are those of the scenario, in its
\* order, and are answered
ScenarioUpTo(m) ==
  \A k \in 1..m :
    /\ pc[k] = "done"
    /\ call[k].op = Scenario[k].op
    /\ call[k].userId = Scenario[k].userId
    /\ call[k].amount = Scenario[k].amount
    /\ call[k].idempotencyKey = Scenario[k].key

\* C21: on a new account, credit 100.50 under k1 answers newBalance 100.50 and
\* duplicate=false; the same request again answers newBalance 100.50 and
\* duplicate=true with the same transactionId and the balance still 100.50;
\* debit 25.75 under k2 answers newBalance 74.75; debit 1000.00 under k3 fails
\* with "Insufficient funds" and the balance stays 74.75.
C21_Scenario ==
  /\ ScenarioUpTo(1)
       => /\ result[1].status = "success" /\ ~result[1].duplicate
          /\ result[1].newBalance = Cents(10050)
          /\ result[1].amount = Cents(10050)
  /\ ScenarioUpTo(2)
       => /\ result[2].status = "success" /\ result[2].duplicate
          /\ result[2].newBalance = Cents(10050)
          /\ result[2].transactionId = result[1].transactionId
          /\ pc[3] = "idle"
               => users[LedgerA].balance = Cents(10050) /\ Len(transactions) = 1
  /\ ScenarioUpTo(3)
       => /\ result[3].status = "success" /\ ~result[3].duplicate
          /\ result[3].newBalance = Cents(7475)
  /\ ScenarioUpTo(4)
       => /\ result[4].status = "error"
          /\ result[4].code = "BAD_REQUEST"
          /\ result[4].message = "Insufficient funds"
          /\ users[LedgerA].balance = Cents(7475)
          /\ users[LedgerB].balance = 0
          /\ Len(transactions) = 2

\* C21 witness: the four requests of the scenario were sent and answered
C21_Witness == ScenarioUpTo(Len(Scenario))

\* a whole number of cents between 0.01 and 999,999.99
WholeCentsInRange(a) ==
  a % Cents(1) = 0 /\ a >= Cents(1) /\ a <= Cents(99999999)

\* amounts around both ends of the range, in steps of a tenth of a cent, and
\* the amounts the client sends
AmountSamples ==
  ((0 - Cents(2))..Cents(3))
    \cup ((MAX_AMOUNT - Cents(2))..(MAX_AMOUNT + Cents(2)))
    \cup {r.amount : r \in LedgerRequests}

\* C22: the schema and validateAmount together accept an amount exactly when
\* it is a whole number of cents between 0.01 and 999,999.99; every topUp or
\* charge that got past them carries such an amount, and so does every stored
\* transaction row.
C22_AmountAccepted ==
  /\ \A a \in AmountSamples :
       (ZodAmountOk(a) /\ validateAmount(a)) <=> WholeCentsInRange(a)
  /\ \A i \in DOMAIN pc :
       (call[i].op \in {"topUp", "charge"} /\ pc[i] \notin {"idle", "done"})
       => WholeCentsInRange(call[i].amount)
  /\ \A i \in DOMAIN pc :
       (call[i].op \in {"topUp", "charge"} /\ Invalid(i)) => RowOf(i) = 0
  /\ \A n \in 1..Len(transactions) : WholeCentsInRange(transactions[n].amount)

\* C22 witness: the largest amount was credited and stored, and requests with
\* one cent more and with half a cent were refused
C22_Witness ==
  /\ \E n \in 1..Len(transactions) : transactions[n].amount = MAX_AMOUNT
  /\ Cardinality({i \in DOMAIN pc : Invalid(i)}) >= 2

\* C23: every stored balance and every stored balance_after is a whole number
\* of cents, whatever the floating-point sums left behind; and a credit of
\* 0.01 followed by a credit of 0.02 on a new account answers 0.03 and leaves
\* the balance at exactly 0.03.
C23_ExactCents ==
  /\ \A u \in DOMAIN users : users[u].balance % Cents(1) = 0
  /\ \A n \in 1..Len(transactions) : transactions[n].balance_after % Cents(1) = 0
  /\ ( /\ pc[1] = "done" /\ pc[2] = "done"
       /\ call[1].op = "topUp" /\ call[1].userId = LedgerA
       /\ call[1].amount = Cents(1) /\ call[1].idempotencyKey = Key1
       /\ call[2].op = "topUp" /\ call[2].userId = LedgerA
       /\ call[2].amount = Cents(2) /\ call[2].idempotencyKey = Key2 )
     => /\ result[1].newBalance = Cents(1)
        /\ result[2].newBalance = Cents(3)
        /\ pc[3] = "idle" => users[LedgerA].balance = Cents(3)

\* C23 witness: 0.01 and then 0.02 were credited to the new account
C23_Witness ==
  /\ pc[1] = "done" /\ pc[2] = "done" /\ pc[3] = "idle"
  /\ call[1].amount = Cents(1) /\ call[2].amount = Cents(2)
  /\ call[1].userId = LedgerA /\ call[2].userId = LedgerA
  /\ Len(transactions) = 2
  /\ transactions[2].balance_after = Cents(3)

\* the messages of the storage layer: the constraint violations and the
\* driver's own errors
ConstraintErrors ==
  {"UNIQUE constraint failed: users.id", "UNIQUE constraint failed: users.email",
   "UNIQUE constraint failed: transactions.id",
   "UNIQUE constraint failed: transactions.idempotency_key",
   "CHECK constraint failed"}

StorageErrors == ConstraintErrors \cup {"SQLITE_ERROR"}

\* C24: no failure answered by createAccount, topUp or charge is a raw storage
\* error: its message is never the message of the storage layer's error,
\* constraint violation or other driver error.
C24_NoRawStorageError ==
  \A i \in DOMAIN pc :
    result[i].status = "error" => result[i].message \notin StorageErrors

\* the part of C24 about constraint violations: none reaches the caller
C24_NoRawConstraintError ==
  \A i \in DOMAIN pc :
    result[i].status = "error" => result[i].message \notin ConstraintErrors

\* request i came to /api/account/create and has its HTTP answer
CreateAnswered(i) ==
  /\ pc[i] = "done"
  /\ result[i].http # 0
  /\ \/ call[i].op = "createAccount"
     \/ result[i].message = MissingCreateFields

\* another account than the one of request i holds the address of request i
EmailTaken(i) ==
  \E u \in DOMAIN users : u # call[i].userId /\ users[u].email = call[i].email

\* C25: POST /api/account/create answers 400 without invoking createAccount
\* (no statement sent, no account made) when email or name is missing, 201
\* with the new account when the address was unused and the account was made,
\* 409 when another account holds the address, and 400 for input the schema
\* refuses.
C25_CreateStatus ==
  \A i \in DOMAIN pc :
    CreateAnswered(i) =>
      IF call[i].op = "none"
        THEN /\ call[i].email = Absent \/ call[i].name = Absent
             /\ result[i].http = 400
             /\ accesses[i] = 0
             /\ generateId(i) \notin DOMAIN users
      ELSE IF call[i].email = <<>>
        THEN result[i].http = 400 /\ accesses[i] = 0
      ELSE IF call[i].userId \in DOMAIN users
        THEN /\ result[i].http = 201
             /\ result[i].account.id = call[i].userId
             /\ result[i].account.email = call[i].email
             /\ ~EmailTaken(i)
      ELSE result[i].http = 409 /\ EmailTaken(i)

\* C25 witness: of two requests one was answered 201 and one 409
C25_Witness ==
  \E i, j \in DOMAIN pc :
    /\ CreateAnswered(i) /\ result[i].http = 201
    /\ CreateAnswered(j) /\ result[j].http = 409

\* C25 witness of the third answer: a body without name was answered 400
C25_WitnessMissing ==
  \E i \in DOMAIN pc :
    CreateAnswered(i) /\ call[i].op = "none" /\ call[i].name = Absent

\* request i came to /api/account/topup with input the schema accepts, and
\* has its HTTP answer
TopupAnswered(i) ==
  /\ pc[i] = "done"
  /\ result[i].http # 0
  /\ call[i].op = "topUp"
  /\ call[i].userId # <<>>

\* C26: POST /api/account/topup answers 404 whenever the userId names no
\* account, whatever the state of the idempotency key, and 200 on success or
\* duplicate.
C26_TopupStatus ==
  \A i \in DOMAIN pc :
    TopupAnswered(i) =>
      /\ call[i].userId \notin DOMAIN users => result[i].http = 404
      /\ result[i].status = "success" => result[i].http = 200

\* what does hold: an unknown account is answered 404, or 500 when the key of
\* the request is attached to a stored row
C26_UnknownAccountStatus ==
  \A i \in DOMAIN pc :
    (TopupAnswered(i) /\ call[i].userId \notin DOMAIN users) =>
      \/ result[i].http = 404
      \/ /\ result[i].http = 500
         /\ \E n \in 1..Len(transactions) :
              transactions[n].idempotency_key = call[i].idempotencyKey

\* the key of request i is attached to a stored row of another account than
\* the existing account the request names
KeyOfOtherAccount(i) ==
  /\ call[i].op \in {"topUp", "charge"}
  /\ UserExists(users, call[i].userId)
  /\ \E n \in 1..Len(transactions) :
       /\ transactions[n].idempotency_key = call[i].idempotencyKey
       /\ transactions[n].user_id # call[i].userId

\* C27: idempotency keys are global: once a key is attached to a committed
\* row of account A, no step of a later topUp or charge that carries the key
\* for another existing account B inserts a row or changes a balance, and the
\* request ends without a row of B under that key.
C27_KeysAreGlobal ==
  [][\A i \in DOMAIN pc :
       (KeyOfOtherAccount(i) /\ pc[i] \notin {"idle", "done"} /\ pc'[i] # pc[i]) =>
         /\ transactions' = transactions
         /\ users' = users
         /\ pc'[i] \in {"duplicate_getUserById", "done"}]_vars

\* C27 witness: a request for account B under the key of a row of account A
\* has been answered
C27_Witness ==
  \E i \in DOMAIN pc :
    /\ pc[i] = "done"
    /\ KeyOfOtherAccount(i)
    /\ call[i].userId = LedgerB
    /\ result[i].status = "success"
    /\ Len(transactions) = 1

\* C28: a charge whose amount equals the balance passes the balance check and
\* commits with duplicate = false and a balance of 0.00; the check refuses
\* with "Insufficient funds" exactly the amounts strictly above the balance.
C28_ChargeWholeBalance ==
  [][\A i \in DOMAIN pc :
       (call[i].op = "charge" /\ UserExists(users, call[i].userId) /\ pc'[i] # pc[i]) =>
         /\ pc[i] = "getUserById" =>
              IF call[i].amount > users[call[i].userId].balance
                THEN /\ pc'[i] = "done"
                     /\ result'[i].status = "error"
                     /\ result'[i].message = "Insufficient funds"
                ELSE /\ pc'[i] = "batch"
                     /\ local'[i].newBalance = users[call[i].userId].balance - call[i].amount
         /\ (pc[i] = "batch" /\ call[i].amount = users[call[i].userId].balance) =>
              /\ pc'[i] = "done"
              /\ result'[i].status = "success"
              /\ ~result'[i].duplicate
              /\ result'[i].newBalance = 0
              /\ users'[call[i].userId].balance = 0]_vars

\* C28 witness: the 100.50 credited before were charged in one request
C28_Witness ==
  \E i \in DOMAIN pc :
    /\ pc[i] = "done"
    /\ call[i].op = "charge"
    /\ call[i].amount = Cents(10050)
    /\ result[i].status = "success"
    /\ ~result[i].duplicate
    /\ result[i].newBalance = 0
    /\ users[call[i].userId].balance = 0

NegativeBalanceMessage == "Operation would result in negative balance"

\* C29: the guard against a negative new balance is unreachable: no charge is
\* ever answered "Operation would result in negative balance", because the
\* balance check before it has refused every amount above the balance read.
C29_GuardUnreachable ==
  [][\A i \in DOMAIN pc : result'[i].message # NegativeBalanceMessage]_vars

\* C29 witness: a charge above the balance went through the handler and was
\* refused by the balance check
C29_Witness ==
  \E i \in DOMAIN pc :
    /\ pc[i] = "done"
    /\ call[i].op = "charge"
    /\ accesses[i] = 2
    /\ result[i].message = "Insufficient funds"

\* a row as the schema and the handlers mean it to be
RowWellFormed(row) ==
  /\ row.amount > 0
  /\ row.balance_after >= 0
  /\ row.type \in {"topup", "charge"}
  /\ row.idempotency_key # <<>>
  /\ row.user_id \in DOMAIN users

\* C30: in every reachable state every transaction row has an amount above
\* zero, a balance_after of zero or more, the type topup or charge, a key that
\* is not null, and a user_id that names an existing account.
C30_RowsWellFormed ==
  [](\A n \in 1..Len(transactions) : RowWellFormed(transactions[n]))

\* C30 witness: a top-up and a charge have each stored a row
C30_Witness ==
  \E m, n \in 1..Len(transactions) :
    /\ transactions[m].type = "topup" /\ transactions[m].id # <<"t">>
    /\ transactions[n].type = "charge"

\* request i is a topUp or charge answered with success and duplicate = false
AnsweredFresh(i) ==
  /\ IsMutation(i)
  /\ pc[i] = "done"
  /\ result[i].status = "success"
  /\ ~result[i].duplicate

\* C31: among all topUp and charge requests that carry one idempotency key,
\* under any interleaving, at most one is answered with duplicate = false, and
\* that one is the request whose row is stored under the key; every other
\* success for the key has duplicate = true.
C31_OneFreshAnswerPerKey ==
  [](\A i, j \in DOMAIN pc :
       ( /\ AnsweredFresh(i)
         /\ IsMutation(j) /\ pc[j] = "done" /\ result[j].status = "success"
         /\ call[j].idempotencyKey = call[i].idempotencyKey
         /\ j # i )
       => /\ result[j].duplicate
          /\ \A n \in RowsOfKey(call[i].idempotencyKey) :
               transactions[n].id = generateId(i))

\* C31 witness: two requests raced on one key; one was answered duplicate =
\* false, the other lost the commit and was answered duplicate = true
C31_Witness ==
  \E i, j \in DOMAIN pc :
    /\ AnsweredFresh(i)
    /\ IsMutation(j) /\ pc[j] = "done" /\ result[j].status = "success"
    /\ call[j].idempotencyKey = call[i].idempotencyKey
    /\ call[j].op # call[i].op
    /\ LostRace(j)
    /\ result[j].duplicate

\* C32: at the moment a topUp or charge is answered with success, duplicate or
\* not, exactly one row is stored under the key of the request, and the
\* answer carries the id and the amount of that row.
C32_AnswerCarriesStoredRow ==
  [][\A i \in DOMAIN pc :
       ( /\ IsMutation(i) /\ pc[i] # "done" /\ pc'[i] = "done"
         /\ result'[i].status = "success" )
       => /\ \E n \in 1..Len(transactions') :
               /\ transactions'[n].idempotency_key = call[i].idempotencyKey
               /\ transactions'[n].id = result'[i].transactionId
               /\ transactions'[n].amount = result'[i].amount
          /\ \A m, n \in 1..Len(transactions') :
               ( /\ transactions'[m].idempotency_key = call[i].idempotencyKey
                 /\ transactions'[n].idempotency_key = call[i].idempotencyKey )
               => m = n]_vars

\* C32 witness: a request was answered duplicate = true with the id and the
\* amount of a row that another request stored with another amount
C32_Witness ==
  \E i \in DOMAIN pc : \E n \in 1..Len(transactions) :
    /\ IsMutation(i) /\ pc[i] = "done"
    /\ result[i].status = "success" /\ result[i].duplicate
    /\ transactions[n].idempotency_key = call[i].idempotencyKey
    /\ transactions[n].id = result[i].transactionId
    /\ transactions[n].id # generateId(i)
    /\ result[i].amount = transactions[n].amount
    /\ call[i].amount # transactions[n].amount

\* request i ended in a terminal error: account not found, insufficient
\* funds or invalid input
TerminalError(i) ==
  /\ pc[i] = "done"
  /\ call[i].op \in {"topUp", "charge"}
  /\ result[i].status = "error"
  /\ result[i].code \in {"NOT_FOUND", "BAD_REQUEST"}

\* C33: a topUp or charge that ends in a terminal error does not consume its
\* key: the step that ends it stores no row and changes no balance, no row is
\* stored under its key, and the probe of a later request with that key, when
\* every earlier request with the key ended in a terminal error, finds nothing
\* and goes on as for a new request.
C33_TerminalErrorKeepsKey ==
  [][\A i \in DOMAIN pc :
       /\ (pc[i] # "done" /\ TerminalError(i)')
            => /\ transactions' = transactions
               /\ users' = users
               /\ \A n \in 1..Len(transactions') :
                    /\ transactions'[n].id # generateId(i)
                    /\ call'[i].idempotencyKey # <<>>
                         => transactions'[n].idempotency_key # call'[i].idempotencyKey
       /\ ( /\ pc[i] = "getTransactionByIdempotencyKey" /\ pc'[i] # pc[i]
            /\ \E j \in DOMAIN pc : j # i /\ call[j].idempotencyKey = call[i].idempotencyKey
            /\ \A j \in DOMAIN pc :
                 (j # i /\ call[j].idempotencyKey = call[i].idempotencyKey)
                   => TerminalError(j) )
            => pc'[i] = "getUserById"]_vars

\* C33 witness: a charge refused for insufficient funds was sent again with
\* the same key after a top-up and was answered success with duplicate = false
C33_Witness ==
  \E i, j \in DOMAIN pc :
    /\ i < j
    /\ TerminalError(i) /\ result[i].message = "Insufficient funds"
    /\ call[j] = call[i]
    /\ pc[j] = "done" /\ result[j].status = "success" /\ ~result[j].duplicate
    /\ \E n \in 1..Len(transactions) :
         /\ transactions[n].id = generateId(j)
         /\ transactions[n].idempotency_key = call[i].idempotencyKey

\* C33 witness for the other error: the key of a request answered "User not
\* found" was used again for an existing account, with duplicate = false
C33_WitnessNotFound ==
  \E i, j \in DOMAIN pc :
    /\ i < j
    /\ TerminalError(i) /\ result[i].code = "NOT_FOUND"
    /\ call[j].idempotencyKey = call[i].idempotencyKey
    /\ pc[j] = "done" /\ result[j].status = "success" /\ ~result[j].duplicate

\* the account that owns the row stored under key k
OwnerOfKey(k) ==
  transactions[CHOOSE n \in 1..Len(transactions) : transactions[n].idempotency_key = k].user_id

\* C34: the newBalance of an answer with duplicate = true is, at the moment of
\* the answer, the balance of the account that owns the row stored under the
\* key of the request.
C34_DuplicateReportsOwnerBalance ==
  [][\A i \in DOMAIN pc :
       ( /\ IsMutation(i) /\ pc[i] # "done" /\ pc'[i] = "done"
         /\ result'[i].status = "success" /\ result'[i].duplicate )
       => result'[i].newBalance = users[OwnerOfKey(call[i].idempotencyKey)].balance]_vars

\* what does hold: the answer reports the balance of the account the request
\* names
C34_DuplicateReportsNamedBalance ==
  [][\A i \in DOMAIN pc :
       ( /\ IsMutation(i) /\ pc[i] # "done" /\ pc'[i] = "done"
         /\ result'[i].status = "success" /\ result'[i].duplicate )
       => result'[i].newBalance = users[call[i].userId].balance]_vars

\* request i is a topUp or charge, past validation, that names no account
NamesNoAccount(i) ==
  /\ IsMutation(i)
  /\ pc[i] # "idle"
  /\ ~UserExists(users, call[i].userId)

\* C35: no step of a topUp or charge that names an account id that does not
\* exist changes a balance, an account or a transaction row, and the request
\* is never answered with success, whether or not its key is attached to a
\* stored row.
C35_UnknownAccountNoEffect ==
  [][\A i \in DOMAIN pc :
       (NamesNoAccount(i) /\ pc'[i] # pc[i]) =>
         /\ users' = users
         /\ transactions' = transactions
         /\ pc'[i] = "done" => result'[i].status = "error"]_vars

\* C35 witness: a request that names no account, with a key attached to a
\* stored row, has been answered
C35_Witness ==
  \E i \in DOMAIN pc :
    /\ NamesNoAccount(i)
    /\ pc[i] = "done"
    /\ RowsOfKey(call[i].idempotencyKey) # {}
    /\ local[i].existingTransaction # NoRow

\* every row stored before the step is stored unchanged after it
RowsKept ==
  /\ Len(transactions') >= Len(transactions)
  /\ \A n \in 1..Len(transactions) : transactions'[n] = transactions[n]

\* C36: a step of a topUp or charge on account A leaves every other account
\* and every stored row as it was, changes of A nothing but the balance, and
\* inserts at most one row, owned by A; a step of createAccount leaves every
\* existing account and the transaction table as they were.
C36_Frame ==
  [][\A i \in DOMAIN pc :
       (pc[i] # "idle" /\ pc'[i] # pc[i]) =>
         IF call[i].op = "createAccount"
           THEN /\ transactions' = transactions
                /\ DOMAIN users \subseteq DOMAIN users'
                /\ \A u \in DOMAIN users : users'[u] = users[u]
                /\ DOMAIN users' \subseteq DOMAIN users \cup {call[i].userId}
         ELSE /\ DOMAIN users' = DOMAIN users
              /\ \A u \in DOMAIN users :
                   /\ u # call[i].userId => users'[u] = users[u]
                   /\ users'[u].email = users[u].email
                   /\ users'[u].name = users[u].name
              /\ RowsKept
              /\ Len(transactions') <= Len(transactions) + 1
              /\ \A n \in (Len(transactions) + 1)..Len(transactions') :
                   transactions'[n].user_id = call[i].userId]_vars

\* C36 witness: a request on a newly created account has stored a row while
\* the account that existed before holds its balance and its row
C36_Witness ==
  /\ SeedUserId \in DOMAIN users
  /\ users[SeedUserId].balance = SeedBalance
  /\ \E n \in 1..Len(transactions) :
       /\ transactions[n].user_id # SeedUserId
       /\ transactions[n].user_id \in DOMAIN users
       /\ users[transactions[n].user_id].balance = transactions[n].balance_after
  /\ transactions[1] = SeedTransactions[1]

\* the awaits of topUp and charge in the order of the handler's text; the two
\* lookups of an account after the probe are alternatives
Rank(p) ==
  CASE p = "idle" -> 0
    [] p = "getTransactionByIdempotencyKey" -> 1
    [] p \in {"duplicate_getUserById", "getUserById"} -> 2
    [] p = "batch" -> 3
    [] p = "rollback" -> 4
    [] p = "recover_getTransactionByIdempotencyKey" -> 5
    [] p = "recover_getUserById" -> 6
    [] OTHER -> 7

\* C37: every topUp and charge terminates: each step of a request takes it
\* further down the handler (no step returns to an earlier await, so there is
\* no retry loop and the batch is attempted at most once), a request sends at
\* most six statements, and under fair scheduling every request that has
\* started is eventually answered.
C37_Termination ==
  /\ [][\A i \in Procs :
          /\ pc'[i] # pc[i] => Rank(pc'[i]) > Rank(pc[i])
          /\ pc'[i] = "batch" => pc[i] \in {"getUserById", "batch"}
          /\ accesses'[i] <= Rank("recover_getUserById")]_vars
  /\ \A i \in Procs : (pc[i] # "idle") ~> (pc[i] = "done")

\* C37 witness: a request has gone through every await of the handler, the
\* race recovery included, and is answered
C37_Witness ==
  \E i \in Procs :
    /\ pc[i] = "done"
    /\ accesses[i] = Rank("recover_getUserById")
    /\ result[i].status = "success"

\* two addresses that differ at most in the case of their letters
CaseVariants(e1, e2) == ToLowerCase(e1) = ToLowerCase(e2)

\* C38: round trip on email: after createAccount has succeeded for an address,
\* getUserByEmail with that address or with a variant of it in other case
\* answers the account that createAccount made, with the same id.
C38_EmailRoundTrip ==
  \A i, j \in DOMAIN pc :
    ( /\ i < j
      /\ call[i].op = "createAccount" /\ pc[i] = "done" /\ result[i].status = "success"
      /\ call[j].op = "getUserByEmail" /\ pc[j] = "done" /\ call[j].email # <<>>
      /\ CaseVariants(call[j].email, call[i].email) )
    => /\ result[j].status = "success"
       /\ result[j].account.id = result[i].account.id
       /\ result[j].account.id = call[i].userId
       /\ result[j].account.email = result[i].account.email

\* C38 witness: an account was created and then found by its address
C38_Witness ==
  \E i, j \in DOMAIN pc :
    /\ i < j
    /\ call[i].op = "createAccount" /\ pc[i] = "done" /\ result[i].status = "success"
    /\ call[j].op = "getUserByEmail" /\ pc[j] = "done"
    /\ result[j].status = "success"
    /\ result[j].account.id = call[i].userId
    /\ result[j].account.email = <<"a", "@", "b">>

====
